---------------------------- MODULE Spec2Model ----------------------------
(***************************************************************************)
(* Model of the Fledge control dispatcher service.                         *)
(*                                                                         *)
(*   Part 1  request queue, worker pool and shutdown                       *)
(*           (C/services/dispatcher/dispatcher_service.cpp)                *)
(*   Part 2  pipeline lookup of the control pipeline manager               *)
(*           (C/services/dispatcher/pipeline_manager.cpp)                  *)
(*   Part 3  execution of write and operation requests                     *)
(*           (C/services/dispatcher/controlrequest.cpp, kvlist.cpp)        *)
(*   Part 4  a pipeline's shared execution context used by the workers     *)
(*           while filter notifications reconfigure it                     *)
(*           (C/services/dispatcher/controlpipeline.cpp,                   *)
(*            pipeline_execution.cpp)                                      *)
(*   Part 5  the filter chain of an execution context: lazy load, filter   *)
(*           insert and delete notifications, and the routing of plugins   *)
(*           (C/services/dispatcher/pipeline_execution.cpp)                *)
(*   Part 6  the execution contexts of an exclusive pipeline               *)
(*           (C/services/dispatcher/controlpipeline.cpp)                   *)
(*   Part 7  KVList: the reading round trip and macro substitution         *)
(*           (C/services/dispatcher/kvlist.cpp)                            *)
(*   Part 8  automation scripts: load, ACL validation, step execution      *)
(*           (C/services/dispatcher/automation.cpp)                        *)
(*   Part 9  filter update and delete notifications: the where clause and  *)
(*           the call made on the pipeline                                 *)
(*           (C/services/dispatcher/pipeline_manager.cpp)                  *)
(*   Part 10 the /dispatch/write and /dispatch/operation entry points and  *)
(*           the worker that executes what they queue                      *)
(*           (C/services/dispatcher/dispatcher_api.cpp,                    *)
(*            dispatcher_service.cpp, controlrequest.cpp)                  *)
(*   Part 11 the condition of a script step                                *)
(*           (C/services/dispatcher/automation.cpp)                        *)
(*   Part 12 the categories the filter plugins are registered under        *)
(*           (C/services/dispatcher/pipeline_manager.cpp,                  *)
(*            pipeline_execution.cpp)                                      *)
(*   Part 13 the change notifications of the pipeline manager against a    *)
(*           findPipeline running on a worker                              *)
(*           (C/services/dispatcher/pipeline_manager.cpp)                  *)
(*   Part 14 the pipelines loaded at start-up and changed by pipeline      *)
(*           insert and update notifications                               *)
(*           (C/services/dispatcher/pipeline_manager.cpp)                  *)
(*                                                                         *)
(* Each part has its own initial predicate and next-state relation over    *)
(* the shared variables; the variables of the other parts are parked.      *)
(***************************************************************************)
EXTENDS Integers, Sequences, FiniteSets, TLC

(***************************************************************************)
(* Bounds of the model and program constants.                              *)
(***************************************************************************)
\* Number of queue() calls made by the HTTP side in one behaviour.
MaxRequests == 3

\* dispatcher_service.h: #define DEFAULT_WORKER_THREADS 2
DEFAULT_WORKER_THREADS == 2

VARIABLES
    \* ---- Part 1: DispatcherService ----
    m_worker_threads,   \* number of worker threads started (dispatcherThreads)
    m_requests,         \* std::queue<ControlRequest *> m_requests
    m_mutex,            \* owner of std::mutex m_mutex (NoThread when free)
    cvWaiters,          \* workers blocked inside m_cv.wait()
    m_stopping,         \* bool m_stopping
    wpc,                \* position of each worker thread
    request,            \* worker's local "request"/"ret" pointer (0 = NULL)
    hpc,                \* position of the HTTP thread inside queue()
    spc,                \* position of the thread running stop()
    nextReq,            \* number of requests pushed so far (request identity)
    returned,           \* how many times getRequest() has returned each request
    started,            \* requests in the order execute() was entered
    completed,          \* requests in the order execute() returned (then deleted)
    eligible,           \* requests pushed while some worker was still running
    \* ---- Part 2: ControlPipelineManager ----
    m_pipelines,        \* std::map<std::string, ControlPipeline *> m_pipelines
    m_pipelineIds,      \* std::map<int, std::string> m_pipelineIds
    lookup,             \* the last findPipeline() call: its arguments, the map it saw, its result
    \* ---- Part 3: ControlRequest::execute ----
    m_enable,           \* bool DispatcherService::m_enable
    chain,              \* what the plugins of the matched pipeline's context do to a reading
    exec,               \* the last execute() call: the request, what happened, what was delivered
    \* ---- Part 4: ControlPipeline and its shared PipelineExecutionContext ----
    m_contextMutex,     \* owner of ControlPipeline::m_contextMutex
    m_pipeline,         \* ControlPipeline::m_pipeline, the filter names in order
    m_sharedContext,    \* TRUE once the shared context has been created
    m_filters,          \* PipelineExecutionContext::m_filters
    m_plugins,          \* PipelineExecutionContext::m_plugins (a plugin is named after its filter)
    m_result,           \* PipelineExecutionContext::m_result and who wrote it
    ctx_mutex,          \* owner of PipelineExecutionContext::m_mutex
    deleted,            \* plugin instances that have been deleted
    cpc,                \* position of each worker in getExecutionContext()/filter()
    npc,                \* position of the notification thread in addFilter/removeFilter
    nargs,              \* the filter, order and index the notification thread works on
    aborted,            \* the process has died of undefined behaviour
    \* ---- Part 5: the plugin chain of the context ----
    m_out,              \* where each plugin sends its output: a plugin, "result" or "unset"
    change,             \* the last notification handled and the chain it found
    \* ---- Part 6: the contexts of an exclusive pipeline ----
    m_contexts,         \* vector<ContextEndpoints>: source, destination, context address
    freed,              \* addresses of contexts that have been deleted
    handed,             \* the last getExecutionContext call and what it returned
    encountered,        \* the (source, dest) pairs requested so far
    \* ---- Part 7: one KVList under toReading/fromReading and substitute ----
    kvlist,             \* KVList::m_list of the list operated on
    parameters,         \* the KVList passed to substitute (keys are character sequences)
    original,           \* m_list as it was before the operation
    kop,                \* the operation applied: "-", "roundtrip" or "substitute"
    kpc,                \* "ready", "loop" (inside substitute), "done" or "dead"
    entry,              \* substitute: index of the m_list entry being rewritten
    p1,                 \* substitute: the local p1
    rval,               \* substitute: the local rval
    \* ---- Part 8: the execution of an automation script ----
    acl,                \* the stored ACL named by the guarded script
    call,               \* the script request being executed and its outcome
    stack,              \* the Script objects executing, the innermost last
    trace,              \* the steps executed for the request, in order
    verdict,            \* what validateACL last found in the stored ACL
    \* ---- Part 9: a filter update or delete notification ----
    notice,             \* the JSON document of the notification last handled
    extracted,          \* what the handler read from it and the call it made
    \* ---- Part 10: the HTTP entry points and the worker ----
    posted,             \* the body of the HTTP request last handled
    responses,          \* the status codes written to its response, in order
    handled,            \* the number of HTTP requests handled
    executed,           \* the requests the worker has taken, with what execute did
    \* ---- Part 11: the condition of a script step ----
    m_condition,        \* m_key, m_op and m_value of one ScriptStep
    evaluated,          \* the parameters last evaluated against it, and the result
    \* ---- Part 12: the categories of the filter plugins ----
    m_categories,       \* std::multimap<std::string, FilterPlugin *> m_categories
    execContexts,       \* the execution contexts: m_filters and m_plugins of each
    gone,               \* the plugin instances that have been deleted
    reconfigured,       \* the reconfigure calls of the categoryChanged handled last
    \* ---- Part 13: notifications against findPipeline ----
    m_pipelinesMtx,     \* owner of std::mutex m_pipelinesMtx (NoThread when free)
    finder,             \* the worker inside findPipeline, or idle
    touched,            \* how the handler run last used m_pipelines and m_pipelineIds
    \* ---- Part 14: the rows of control_pipelines and the pipelines ----
    control_pipelines,  \* the rows of the table, in the order a query returns them
    managed             \* whether loadPipelines has run, and how each pipeline came

qvars == <<m_worker_threads, m_requests, m_mutex, cvWaiters, m_stopping, wpc,
           request, hpc, spc, nextReq, returned, started, completed, eligible>>

fvars == <<m_pipelines, m_pipelineIds, lookup>>

xvars == <<m_enable, chain, exec>>

cvars == <<m_contextMutex, m_pipeline, m_sharedContext, m_filters, m_plugins, m_result,
           ctx_mutex, deleted, cpc, npc, nargs, aborted>>

hvars == <<m_out, change>>

evars == <<m_contexts, freed, handed, encountered>>

kvars == <<kvlist, parameters, original, kop, kpc, entry, p1, rval>>

svars == <<acl, call, stack, trace, verdict>>

wvars == <<notice, extracted>>

avars == <<posted, responses, handled, executed>>

dvars == <<m_condition, evaluated>>

\* The variables of parts 11 and later.
gvars == <<m_categories, execContexts, gone, reconfigured>>
nvars == <<m_pipelinesMtx, finder, touched>>
tvars == <<control_pipelines, managed>>
latevars == <<dvars, gvars, nvars, tvars>>

vars == <<qvars, fvars, xvars, cvars, hvars, evars, kvars, svars, wvars, avars, latevars>>

\* What the actions of one part leave unchanged.
notQueue == <<fvars, xvars, cvars, hvars, evars, kvars, svars, wvars, avars, latevars>>
notFind == <<qvars, xvars, cvars, hvars, evars, kvars, svars, wvars, avars, latevars>>
notExec == <<qvars, lookup, cvars, hvars, evars, kvars, svars, wvars, avars, latevars>>
notContext == <<qvars, fvars, xvars, hvars, evars, kvars, svars, wvars, avars, latevars>>
notChain == <<qvars, fvars, xvars, m_contextMutex, m_result, ctx_mutex, cpc, npc, nargs, evars,
              kvars, svars, wvars, avars, latevars>>
notExclusive == <<qvars, fvars, xvars, m_contextMutex, m_pipeline, m_sharedContext, m_filters,
                  m_plugins, m_result, ctx_mutex, deleted, cpc, npc, nargs, hvars, kvars, svars,
                  wvars, avars, latevars>>
notKVList == <<qvars, fvars, xvars, m_contextMutex, m_pipeline, m_sharedContext, m_filters,
               m_plugins, m_result, ctx_mutex, deleted, cpc, npc, nargs, hvars, evars, svars,
               wvars, avars, latevars>>
notScript == <<qvars, fvars, xvars, m_contextMutex, m_pipeline, m_sharedContext, m_filters,
               m_plugins, m_result, ctx_mutex, deleted, cpc, npc, nargs, hvars, evars, kvars,
               wvars, avars, latevars>>
ctxvars == <<m_contextMutex, m_pipeline, m_sharedContext, m_filters, m_plugins, m_result,
             ctx_mutex, deleted, cpc, npc, nargs>>
qrest == <<m_worker_threads, m_mutex, cvWaiters, m_stopping, wpc, request, hpc, spc,
           nextReq, returned, started, completed, eligible>>
notWhere == <<qvars, lookup, xvars, ctxvars, hvars, evars, kvars, svars, avars, latevars>>
notApi == <<qrest, fvars, xvars, ctxvars, hvars, evars, kvars, svars, wvars, latevars>>
earlyvars == <<qvars, fvars, xvars, cvars, hvars, evars, kvars, svars, wvars, avars>>
notCondition == <<earlyvars, gvars, nvars, tvars>>
notCategory == <<qvars, fvars, xvars, ctxvars, hvars, evars, kvars, svars, wvars, avars, dvars, nvars, tvars>>
notNotify == <<qvars, xvars, ctxvars, hvars, evars, kvars, svars, wvars, avars, dvars, gvars, tvars>>
notTable == <<qvars, xvars, cvars, hvars, evars, kvars, svars, wvars, avars, dvars, gvars, nvars>>

(***************************************************************************)
(* Part 1: DispatcherService queue, workers, stop.                         *)
(***************************************************************************)
\* Thread identities: workers are 1 .. DEFAULT_WORKER_THREADS; a free mutex has no owner.
NoThread == 0
HttpThread == DEFAULT_WORKER_THREADS + 1
WorkerIds == 1 .. DEFAULT_WORKER_THREADS
Workers == 1 .. m_worker_threads
RequestIds == 1 .. MaxRequests

SeqToSet(s) == { s[i] : i \in DOMAIN s }

\* std::unique_lock / std::lock_guard constructor: the mutex can be taken
\* only when nobody owns it.
CanLockNoMutex(t) == TRUE
CanLock(t) == m_mutex = NoThread

\* m_requests.push(request): std::queue pushes at the back.
PushFront(q, r) == <<r>> \o q
Push(q, r) == Append(q, r)

\* m_requests.pop(): removes the front element.
PopKeep(q) == q
Pop(q) == Tail(q)

\* m_cv.notify_all(): every thread blocked in wait() becomes runnable and has
\* to re-acquire the mutex before it returns from wait().
NotifyNobody(waiters) == {}
NotifyAll(waiters) == waiters

QueueInit ==
    /\ m_worker_threads \in 1 .. DEFAULT_WORKER_THREADS
    /\ m_requests = <<>>
    /\ m_mutex = NoThread
    /\ cvWaiters = {}
    /\ m_stopping = FALSE
    /\ wpc = [w \in WorkerIds |-> IF w <= m_worker_threads THEN "start" ELSE "absent"]
    /\ request = [w \in WorkerIds |-> 0]
    /\ hpc = "idle"
    /\ spc = "idle"
    /\ nextReq = 0
    /\ returned = [r \in RequestIds |-> 0]
    /\ started = <<>>
    /\ completed = <<>>
    /\ eligible = {}

\* ---- DispatcherService::queue, lines 499-505 (HTTP thread) ----
\* The HTTP listener accepts requests until stop() has stopped the API.
Q_Lock ==
    /\ hpc = "idle"
    /\ spc # "done"
    /\ nextReq < MaxRequests
    /\ CanLock(HttpThread)
    /\ m_mutex' = HttpThread
    /\ hpc' = "push"
    /\ UNCHANGED <<m_worker_threads, m_requests, cvWaiters, m_stopping, wpc, request,
                   spc, nextReq, returned, started, completed, eligible,
                   notQueue>>

Q_Push ==
    /\ hpc = "push"
    /\ nextReq' = nextReq + 1
    /\ m_requests' = Push(m_requests, nextReq')
    /\ eligible' = IF \E w \in Workers : wpc[w] # "exited"
                   THEN eligible \cup {nextReq'} ELSE eligible
    /\ hpc' = "notify"
    /\ UNCHANGED <<m_worker_threads, m_mutex, cvWaiters, m_stopping, wpc, request,
                   spc, returned, started, completed,
                   notQueue>>

Q_Notify ==
    /\ hpc = "notify"
    /\ wpc' = [w \in WorkerIds |-> IF w \in NotifyAll(cvWaiters) THEN "woken" ELSE wpc[w]]
    /\ cvWaiters' = cvWaiters \ NotifyAll(cvWaiters)
    /\ hpc' = "return"
    /\ UNCHANGED <<m_worker_threads, m_requests, m_mutex, m_stopping, request,
                   spc, nextReq, returned, started, completed, eligible,
                   notQueue>>

Q_Return ==
    /\ hpc = "return"
    /\ m_mutex' = IF m_mutex = HttpThread THEN NoThread ELSE m_mutex
    /\ hpc' = "idle"
    /\ UNCHANGED <<m_worker_threads, m_requests, cvWaiters, m_stopping, wpc, request,
                   spc, nextReq, returned, started, completed, eligible,
                   notQueue>>

\* ---- DispatcherService::stop, lines 366-376 ----
S_SetStopping ==
    /\ spc = "idle"
    /\ m_stopping' = TRUE
    /\ spc' = "notify"
    /\ UNCHANGED <<m_worker_threads, m_requests, m_mutex, cvWaiters, wpc, request,
                   hpc, nextReq, returned, started, completed, eligible,
                   notQueue>>

S_NotifyAll ==
    /\ spc = "notify"
    /\ wpc' = [w \in WorkerIds |-> IF w \in NotifyAll(cvWaiters) THEN "woken" ELSE wpc[w]]
    /\ cvWaiters' = cvWaiters \ NotifyAll(cvWaiters)
    /\ spc' = "apistop"
    /\ UNCHANGED <<m_worker_threads, m_requests, m_mutex, m_stopping, request,
                   hpc, nextReq, returned, started, completed, eligible,
                   notQueue>>

S_ApiStop ==
    /\ spc = "apistop"
    /\ spc' = "done"
    /\ UNCHANGED <<m_worker_threads, m_requests, m_mutex, cvWaiters, m_stopping, wpc,
                   request, hpc, nextReq, returned, started, completed, eligible,
                   notQueue>>

\* ---- DispatcherService::getRequest, lines 512-524 (worker w) ----
W_Lock(w) ==
    /\ wpc[w] = "start"
    /\ CanLock(w)
    /\ m_mutex' = w
    /\ wpc' = [wpc EXCEPT ![w] = "test"]
    /\ UNCHANGED <<m_worker_threads, m_requests, cvWaiters, m_stopping, request,
                   hpc, spc, nextReq, returned, started, completed, eligible,
                   notQueue>>

\* line 515: while (m_requests.empty())
W_TestEmpty(w) ==
    /\ wpc[w] = "test"
    /\ wpc' = [wpc EXCEPT ![w] = IF m_requests = <<>> THEN "stopping" ELSE "front"]
    /\ UNCHANGED <<m_worker_threads, m_requests, m_mutex, cvWaiters, m_stopping,
                   request, hpc, spc, nextReq, returned, started, completed, eligible,
                   notQueue>>

\* lines 517-518: if (m_stopping) return NULL;  (the lock is released on return
\* and worker() leaves its loop)
W_TestStopping(w) ==
    /\ wpc[w] = "stopping"
    /\ IF m_stopping
       THEN /\ wpc' = [wpc EXCEPT ![w] = "exited"]
            /\ m_mutex' = IF m_mutex = w THEN NoThread ELSE m_mutex
       ELSE /\ wpc' = [wpc EXCEPT ![w] = "wait"]
            /\ UNCHANGED m_mutex
    /\ UNCHANGED <<m_worker_threads, m_requests, cvWaiters, m_stopping, request,
                   hpc, spc, nextReq, returned, started, completed, eligible,
                   notQueue>>

\* line 519: m_cv.wait(lock) atomically releases the mutex and blocks.
W_Wait(w) ==
    /\ wpc[w] = "wait"
    /\ wpc' = [wpc EXCEPT ![w] = "blocked"]
    /\ cvWaiters' = cvWaiters \cup {w}
    /\ m_mutex' = IF m_mutex = w THEN NoThread ELSE m_mutex
    /\ UNCHANGED <<m_worker_threads, m_requests, m_stopping, request,
                   hpc, spc, nextReq, returned, started, completed, eligible,
                   notQueue>>

\* std::condition_variable::wait may return without a notification.
W_SpuriousWake(w) ==
    /\ wpc[w] = "blocked"
    /\ wpc' = [wpc EXCEPT ![w] = "woken"]
    /\ cvWaiters' = cvWaiters \ {w}
    /\ UNCHANGED <<m_worker_threads, m_requests, m_mutex, m_stopping, request,
                   hpc, spc, nextReq, returned, started, completed, eligible,
                   notQueue>>

\* wait() re-acquires the mutex before returning to the while test.
W_Relock(w) ==
    /\ wpc[w] = "woken"
    /\ CanLock(w)
    /\ m_mutex' = w
    /\ wpc' = [wpc EXCEPT ![w] = "test"]
    /\ UNCHANGED <<m_worker_threads, m_requests, cvWaiters, m_stopping, request,
                   hpc, spc, nextReq, returned, started, completed, eligible,
                   notQueue>>

\* line 521: ControlRequest *ret = m_requests.front();
\* (front() of an empty std::queue is undefined: any request may be read)
W_Front(w) ==
    /\ wpc[w] = "front"
    /\ \E r \in (IF m_requests # <<>> THEN {Head(m_requests)} ELSE 1 .. nextReq) :
           request' = [request EXCEPT ![w] = r]
    /\ wpc' = [wpc EXCEPT ![w] = "pop"]
    /\ UNCHANGED <<m_worker_threads, m_requests, m_mutex, cvWaiters, m_stopping,
                   hpc, spc, nextReq, returned, started, completed, eligible,
                   notQueue>>

\* lines 522-523: m_requests.pop(); return ret;  (lock released on return)
W_Pop(w) ==
    /\ wpc[w] = "pop"
    /\ m_requests' = IF m_requests # <<>> THEN Pop(m_requests) ELSE m_requests
    /\ returned' = [returned EXCEPT ![request[w]] = @ + 1]
    /\ m_mutex' = IF m_mutex = w THEN NoThread ELSE m_mutex
    /\ wpc' = [wpc EXCEPT ![w] = "execute"]
    /\ UNCHANGED <<m_worker_threads, cvWaiters, m_stopping, request,
                   hpc, spc, nextReq, started, completed, eligible,
                   notQueue>>

\* ---- DispatcherService::worker, lines 529-538 ----
\* line 535: request->execute(this) is entered
W_Execute(w) ==
    /\ wpc[w] = "execute"
    /\ started' = Append(started, request[w])
    /\ wpc' = [wpc EXCEPT ![w] = "delete"]
    /\ UNCHANGED <<m_worker_threads, m_requests, m_mutex, cvWaiters, m_stopping,
                   request, hpc, spc, nextReq, returned, completed, eligible,
                   notQueue>>

\* execute() has returned; line 536: delete request; back to getRequest()
W_Delete(w) ==
    /\ wpc[w] = "delete"
    /\ completed' = Append(completed, request[w])
    /\ request' = [request EXCEPT ![w] = 0]
    /\ wpc' = [wpc EXCEPT ![w] = "start"]
    /\ UNCHANGED <<m_worker_threads, m_requests, m_mutex, cvWaiters, m_stopping,
                   hpc, spc, nextReq, returned, started, eligible,
                   notQueue>>

WorkerStep(w) ==
    \/ W_Lock(w)
    \/ W_TestEmpty(w)
    \/ W_TestStopping(w)
    \/ W_Wait(w)
    \/ W_Relock(w)
    \/ W_Front(w)
    \/ W_Pop(w)
    \/ W_Execute(w)
    \/ W_Delete(w)

QueueNext ==
    \/ Q_Lock
    \/ Q_Push
    \/ Q_Notify
    \/ Q_Return
    \/ S_SetStopping
    \/ S_NotifyAll
    \/ S_ApiStop
    \/ \E w \in Workers : WorkerStep(w)
    \/ \E w \in Workers : W_SpuriousWake(w)

(***************************************************************************)
(* Part 2: ControlPipelineManager, pipeline lookup.                        *)
(***************************************************************************)
\* PipelineEndpoint(type, name), pipeline_manager.h
PipelineEndpoint(type, name) == [m_type |-> type, m_name |-> name]
EndpointAny == PipelineEndpoint("EndpointAny", "")

\* PipelineEndpoint::match: `e` is the endpoint match() is called on.
EndpointMatch(e, candidate) ==
    \/ e.m_type = "EndpointAny"
    \/ /\ candidate.m_type = e.m_type
       /\ (candidate.m_name = "" \/ candidate.m_name = e.m_name)

\* ControlPipeline::match(source, dest):
\*     return source.match(m_source) && dest.match(m_dest);
PipelineMatch(pipe, source, dest) ==
    EndpointMatch(source, pipe.m_source) /\ EndpointMatch(dest, pipe.m_dest)

\* The pipeline names of the model, in the order in which std::map<std::string, ...>
\* iterates over them, and the cpid the storage layer holds for each name.
PipelineNames == <<"P1", "P2">>
NULL == "NULL"
Cpid(name) == CHOOSE i \in DOMAIN PipelineNames : PipelineNames[i] = name

\* The endpoints found in rows of control_pipelines, and those of requests.
RowSources == { EndpointAny,
                PipelineEndpoint("EndpointService", "X"),
                PipelineEndpoint("EndpointService", "") }
RowDests == { EndpointAny,
              PipelineEndpoint("EndpointService", "Y"),
              PipelineEndpoint("EndpointScript", "S") }
RequestSources == { EndpointAny,
                    PipelineEndpoint("EndpointService", "X"),
                    PipelineEndpoint("EndpointService", "Z") }
RequestDests == { PipelineEndpoint("EndpointService", "Y"),
                  PipelineEndpoint("EndpointService", "Q"),
                  PipelineEndpoint("EndpointScript", "S") }

ControlPipeline(source, dest) == [m_source |-> source, m_dest |-> dest]
Rows == { ControlPipeline(s, d) : s \in RowSources, d \in RowDests }

\* One loop `for (auto const& pipe : m_pipelines) if (pipe.second->match(s, d))
\* return pipe.second;` over the map `pipes`: the first hit in key order.
FirstMatch(pipes, source, dest) ==
    LET hits == { i \in DOMAIN PipelineNames :
                     /\ PipelineNames[i] \in DOMAIN pipes
                     /\ PipelineMatch(pipes[PipelineNames[i]], source, dest) }
    IN  IF hits = {} THEN NULL
        ELSE PipelineNames[CHOOSE i \in hits : \A j \in hits : i <= j]

\* ControlPipelineManager::findPipeline, the four loops in order.
findPipeline(pipes, source, dest) ==
    LET any == EndpointAny
        exact == FirstMatch(pipes, source, dest)
        anySource == FirstMatch(pipes, any, dest)
        anyDest == FirstMatch(pipes, source, any)
        anyAny == FirstMatch(pipes, any, any)
    IN  IF exact # NULL THEN exact
        ELSE IF anySource # NULL THEN anySource
        ELSE IF anyDest # NULL THEN anyDest
        ELSE anyAny

NoLookup == [source |-> EndpointAny, dest |-> EndpointAny, pipes |-> <<>>, result |-> "-"]

\* loadPipelines(): the rows present in control_pipelines at start-up.
FindInit ==
    /\ m_pipelines \in UNION { [names -> Rows] : names \in SUBSET SeqToSet(PipelineNames) }
    /\ m_pipelineIds = [i \in { Cpid(n) : n \in DOMAIN m_pipelines } |-> PipelineNames[i]]
    /\ lookup = NoLookup

\* A worker calls findPipeline(source, dest).
FindPipeline(source, dest) ==
    /\ lookup' = [source |-> source, dest |-> dest, pipes |-> m_pipelines,
                  result |-> findPipeline(m_pipelines, source, dest)]
    /\ UNCHANGED <<m_pipelines, m_pipelineIds, notFind>>

\* ControlPipelineManager::insertPipeline: a row was inserted in control_pipelines;
\* loadPipeline(pname) fetches its cpid (or fails, and the pipeline is not stored).
InsertPipeline(name, row, loaded) ==
    /\ name \notin DOMAIN m_pipelines
    /\ IF loaded
       THEN /\ m_pipelines' = [n \in DOMAIN m_pipelines \cup {name} |->
                                  IF n = name THEN row ELSE m_pipelines[n]]
            /\ m_pipelineIds' = [i \in DOMAIN m_pipelineIds \cup {Cpid(name)} |->
                                  IF i = Cpid(name) THEN name ELSE m_pipelineIds[i]]
       ELSE UNCHANGED <<m_pipelines, m_pipelineIds>>
    /\ UNCHANGED <<lookup, notFind>>

\* ControlPipelineManager::deletePipeline: the row with this cpid was deleted.
DeletePipeline(cpid) ==
    /\ cpid \in DOMAIN m_pipelineIds
    /\ m_pipelineIds' = [i \in DOMAIN m_pipelineIds \ {cpid} |-> m_pipelineIds[i]]
    /\ m_pipelines' = [n \in DOMAIN m_pipelines \ {m_pipelineIds[cpid]} |-> m_pipelines[n]]
    /\ UNCHANGED <<lookup, notFind>>

FindNext ==
    \/ \E s \in RequestSources, d \in RequestDests : FindPipeline(s, d)
    \/ \E n \in SeqToSet(PipelineNames), row \in Rows, loaded \in BOOLEAN :
           InsertPipeline(n, row, loaded)
    \/ \E cpid \in DOMAIN PipelineNames : DeletePipeline(cpid)

(***************************************************************************)
(* Part 3: execution of a request: KVList <-> Reading, the filter chain of *)
(* the matched pipeline, and sendToService.                                *)
(***************************************************************************)
\* A std::string is a sequence of one-character strings.
Digits == <<"0", "1", "2", "3", "4", "5", "6", "7", "8", "9">>
IsDigit(c) == \E i \in DOMAIN Digits : Digits[i] = c
DigitValue(c) == (CHOOSE i \in DOMAIN Digits : Digits[i] = c) - 1

\* KVList::deduceType: the loop stops at the first character that is not a
\* digit; a '.' there makes the value a float, anything else a string, and a
\* value of digits only (the empty value included) is an integer.
deduceType(value) ==
    LET stops == { i \in DOMAIN value : ~IsDigit(value[i]) }
    IN  IF stops = {} THEN "T_INTEGER"
        ELSE IF value[CHOOSE i \in stops : \A j \in stops : i <= j] = "."
             THEN "T_FLOAT"
             ELSE "T_STRING"

\* The longest prefix of digits of a string.
RECURSIVE DigitPrefix(_)
DigitPrefix(str) ==
    IF str = <<>> \/ ~IsDigit(Head(str)) THEN <<>>
    ELSE <<Head(str)>> \o DigitPrefix(Tail(str))

\* The value of a string of digits, most significant digit first.
RECURSIVE DigitsValue(_)
DigitsValue(ds) ==
    IF ds = <<>> THEN 0
    ELSE 10 * DigitsValue(SubSeq(ds, 1, Len(ds) - 1)) + DigitValue(ds[Len(ds)])

\* strtol(value, NULL, 10) on a string that starts with digits (or is empty).
strtol(value) == DigitsValue(DigitPrefix(value))

RECURSIVE StripTrailingZeros(_)
StripTrailingZeros(ds) ==
    IF ds # <<>> /\ ds[Len(ds)] = "0" THEN StripTrailingZeros(SubSeq(ds, 1, Len(ds) - 1))
    ELSE ds

\* strtod(value, NULL) on digits '.' digits: a double is kept as its integer
\* part and the significant digits of its fraction.
strtod(value) ==
    LET whole == DigitPrefix(value)
        rest == SubSeq(value, Len(whole) + 1, Len(value))
        frac == IF rest # <<>> /\ Head(rest) = "." THEN DigitPrefix(Tail(rest)) ELSE <<>>
    IN  IF whole = <<>> /\ frac = <<>> THEN [whole |-> 0, frac |-> <<>>]
        ELSE [whole |-> DigitsValue(whole), frac |-> StripTrailingZeros(frac)]

\* Decimal rendering of a long.
RECURSIVE LongToString(_)
LongToString(n) ==
    IF n < 10 THEN <<Digits[n + 1]>>
    ELSE LongToString(n \div 10) \o <<Digits[(n % 10) + 1]>>

\* dp->getData().toStringValue() for strings, dp->getData().toString() for numbers.
DatapointToString(dp) ==
    CASE dp.type = "T_STRING" -> dp.value
      [] dp.type = "T_INTEGER" -> LongToString(dp.value)
      [] dp.type = "T_FLOAT" ->
            LongToString(dp.value.whole) \o <<".">>
               \o (IF dp.value.frac = <<>> THEN <<"0">> ELSE dp.value.frac)

Datapoint(name, type, value) == [name |-> name, type |-> type, value |-> value]
Pair(key, value) == [first |-> key, second |-> value]

\* KVList::toReading: the datapoints of the reading built from a list.
toReading(m_list) ==
    LET values == [i \in DOMAIN m_list |->
                     LET item == m_list[i]
                         type == deduceType(item.second)
                     IN  CASE type = "T_INTEGER" ->
                                 Datapoint(item.first, type, strtol(item.second))
                           [] type = "T_FLOAT" ->
                                 Datapoint(item.first, type, strtod(item.second))
                           [] OTHER -> Datapoint(item.first, "T_STRING", item.second)]
    IN  IF Len(values) = 0
        THEN <<Datapoint("__None__", "T_STRING", <<"N", "o", "n", "e">>)>>
        ELSE values

\* KVList::fromReading: the list is cleared and refilled from the datapoints
\* of the reading, the dummy datapoint left out.
RECURSIVE fromReading(_)
fromReading(datapoints) ==
    IF datapoints = <<>> THEN <<>>
    ELSE LET dp == Head(datapoints)
         IN  (IF dp.name # "__None__" THEN <<Pair(dp.name, DatapointToString(dp))>> ELSE <<>>)
                \o fromReading(Tail(datapoints))

\* The key/value lists carried by the requests of the model.
ParamLists ==
    { <<>>,
      <<Pair("a", <<>>)>>,
      <<Pair("a", <<"0", "7">>)>>,
      <<Pair("a", <<"1", ".", "5", "0">>)>>,
      <<Pair("a", <<"o", "n">>)>>,
      <<Pair("a", <<"7">>), Pair("b", <<"o", "n">>)>> }

\* The filter plugins are foreign code.  What m_plugins[0]->ingest(readingSet)
\* can do with the one reading handed to it:
\*   "none"     the context has no plugin (nothing configured, or the load failed)
\*   "pass"     the reading arrives unchanged in the result set
\*   "rewrite"  the reading is changed in place and arrives in the result set
\*   "copy"     a changed copy arrives in a new result set, the original is freed
\*   "remove"   the result set is empty, the reading is freed
\*   "withhold" the result set is empty, the reading is left allocated
Chains == {"none", "pass", "rewrite", "copy", "remove", "withhold"}

Rewritten(datapoints) ==
    [i \in DOMAIN datapoints |-> Datapoint(datapoints[i].name, "T_INTEGER", 1)]

\* The reading object after the chain has run, and the readings of m_result.
ApplyChain(c, datapoints) ==
    CASE c = "pass" -> [reading |-> datapoints, freed |-> FALSE, m_result |-> <<datapoints>>]
      [] c = "rewrite" -> [reading |-> Rewritten(datapoints), freed |-> FALSE,
                           m_result |-> <<Rewritten(datapoints)>>]
      [] c = "copy" -> [reading |-> datapoints, freed |-> TRUE,
                        m_result |-> <<Rewritten(datapoints)>>]
      [] c = "remove" -> [reading |-> datapoints, freed |-> TRUE, m_result |-> <<>>]
      [] c = "withhold" -> [reading |-> datapoints, freed |-> FALSE, m_result |-> <<>>]

\* PipelineExecutionContext::filter(reading): NULL without plugins, otherwise
\* the first reading of m_result, or NULL when m_result is empty.  The Reading
\* pointer returned is a sequence of at most one reading, empty for NULL.
ContextFilter(c, datapoints) ==
    IF c = "none"
    THEN [reading |-> datapoints, freed |-> FALSE, return |-> <<>>, removed |-> FALSE]
    ELSE LET after == ApplyChain(c, datapoints)
         IN  [reading |-> after.reading, freed |-> after.freed,
              return |-> IF Len(after.m_result) > 0 THEN <<after.m_result[1]>> ELSE <<>>,
              removed |-> Len(after.m_result) = 0]

\* Reading a freed Reading is undefined: the memory may still hold the old
\* datapoints, may hold anything else, or the process dies.
UseAfterFree == {"stale", "empty", "garbage", "abort"}
Garbage == <<Pair("a", <<"7">>)>>

\* WriteControlRequest::filter: the value of m_values afterwards, and whether
\* the process survived.  The return value of context->filter() is not used.
WriteFilter(pipeline, c, m_values, ub) ==
    IF pipeline = NULL
    THEN [m_values |-> m_values, alive |-> TRUE, filtered |-> FALSE,
          return |-> <<>>, removed |-> FALSE]
    ELSE LET f == ContextFilter(c, toReading(m_values))
         IN  [m_values |-> IF ~f.freed \/ ub = "stale" THEN fromReading(f.reading)
                           ELSE IF ub = "garbage" THEN Garbage
                           ELSE <<>>,
              alive |-> ~f.freed \/ ub # "abort",
              filtered |-> TRUE,
              return |-> f.return,
              removed |-> f.removed]

\* ControlOperationRequest::filter: looks the pipeline up and returns.
OperationFilter(pipeline, m_parameters) ==
    [m_values |-> m_parameters, alive |-> TRUE, filtered |-> FALSE,
     return |-> <<>>, removed |-> FALSE]

\* sendToService without the test of m_enable.
sendToServiceUngated(enabled, known, service, url, payload) ==
    IF ~known THEN <<>>
    ELSE <<[service |-> service, url |-> url, payload |-> payload]>>

\* DispatcherService::sendToService: the PUT requests made.
sendToService(enabled, known, service, url, payload) ==
    IF ~enabled \/ ~known THEN <<>>
    ELSE <<[service |-> service, url |-> url, payload |-> payload]>>

ServiceNames == {"Y", "Q"}
NoExec == [kind |-> "-", service |-> "-", input |-> <<>>, pipeline |-> NULL,
           chain |-> "none", filtered |-> FALSE, return |-> <<>>, removed |-> FALSE,
           alive |-> TRUE,
           m_values |-> <<>>, enabled |-> TRUE, known |-> FALSE, delivered |-> <<>>]

\* The rows of the model for this part: the request source is always Any.
ExecRows == { ControlPipeline(EndpointAny, PipelineEndpoint("EndpointService", "Y")),
              ControlPipeline(EndpointAny, EndpointAny) }

ExecInit ==
    /\ m_pipelines \in {<<>>} \cup { [n \in {"P1"} |-> row] : row \in ExecRows }
    /\ m_pipelineIds = [i \in { Cpid(n) : n \in DOMAIN m_pipelines } |-> PipelineNames[i]]
    /\ m_enable \in BOOLEAN
    /\ chain \in Chains
    /\ exec = NoExec

\* What execute() leaves behind: the request, what filter() did, and the PUT
\* requests made.  A process that died sends nothing.
Executed(kind, service, input, pipeline, after, url, payload, known) ==
    [kind |-> kind, service |-> service, input |-> input, pipeline |-> pipeline,
     chain |-> chain, filtered |-> after.filtered, return |-> after.return,
     removed |-> after.removed, alive |-> after.alive, m_values |-> after.m_values,
     enabled |-> m_enable, known |-> known,
     delivered |-> IF after.alive
                   THEN sendToService(m_enable, known, service, url, payload)
                   ELSE <<>>]

\* ControlWriteServiceRequest::execute
ControlWriteServiceRequest_execute(m_service, m_values, ub, known) ==
    LET destination == PipelineEndpoint("EndpointService", m_service)
        pipeline == findPipeline(m_pipelines, EndpointAny, destination)
        after == WriteFilter(pipeline, chain, m_values, ub)
    IN  /\ exec' = Executed("write", m_service, m_values, pipeline, after,
                            "/fledge/south/setpoint",
                            [values |-> after.m_values], known)
        /\ UNCHANGED <<m_enable, chain, m_pipelines, m_pipelineIds, notExec>>

\* ControlOperationServiceRequest::execute
ControlOperationServiceRequest_execute(m_service, m_operation, m_parameters, known) ==
    LET destination == PipelineEndpoint("EndpointService", m_service)
        pipeline == findPipeline(m_pipelines, EndpointAny, destination)
        after == OperationFilter(pipeline, m_parameters)
    IN  /\ exec' = Executed("operation", m_service, m_parameters, pipeline, after,
                            "/fledge/south/operation",
                            [operation |-> m_operation, parameters |-> after.m_values],
                            known)
        /\ UNCHANGED <<m_enable, chain, m_pipelines, m_pipelineIds, notExec>>

\* DispatcherService::configChange of the "<name> Server" category with an
\* "enable" item.
configChange(e) ==
    /\ m_enable' = (e = "true" \/ e = "TRUE")
    /\ UNCHANGED <<chain, exec, m_pipelines, m_pipelineIds, notExec>>

ExecNext ==
    \/ \E m_service \in ServiceNames, m_values \in ParamLists, ub \in UseAfterFree,
          known \in BOOLEAN :
           ControlWriteServiceRequest_execute(m_service, m_values, ub, known)
    \/ \E m_service \in ServiceNames, m_parameters \in ParamLists, known \in BOOLEAN :
           ControlOperationServiceRequest_execute(m_service, "start", m_parameters, known)
    \/ \E e \in {"true", "TRUE", "false"} : configChange(e)
    \/ \E row \in ExecRows : InsertPipeline("P1", row, TRUE)
    \/ DeletePipeline(Cpid("P1"))

(***************************************************************************)
(* Part 4: one ControlPipeline with its shared PipelineExecutionContext.   *)
(* Workers fetch the context and call filter(); the API thread handles the *)
(* filter insert and delete notifications of the pipeline.                 *)
(***************************************************************************)
FilterNames == {"f1", "f2", "f3"}

\* Change notifications are delivered on the API's one thread.
NotifyThread == HttpThread

\* lock_guard<mutex> guard(m_mutex) of the execution context.
ContextCanLockNoMutex(t) == TRUE
ContextCanLock(t) == ctx_mutex = NoThread

\* vec.insert(vec.begin() + offset, x) and vec.erase(vec.begin() + offset)
InsertAt(vec, offset, x) ==
    SubSeq(vec, 1, offset) \o <<x>> \o SubSeq(vec, offset + 1, Len(vec))
EraseAt(vec, offset) ==
    SubSeq(vec, 1, offset) \o SubSeq(vec, offset + 2, Len(vec))

\* std::find(vec.begin(), vec.end(), x) - vec.begin()
IndexOf(vec, x) ==
    LET hits == { i \in DOMAIN vec : vec[i] = x }
    IN  IF hits = {} THEN Len(vec)
        ELSE (CHOOSE i \in hits : \A j \in hits : i <= j) - 1

\* m_result is not initialised by the constructor.
NoResult == [set |-> FALSE, count |-> 0, writer |-> NoThread, unread |-> FALSE]
NoArgs == [filter |-> "-", order |-> 0, index |-> 0]

\* What undefined behaviour does: the process dies, or goes on.
Undefined == {"abort", "continue"}

ContextInit ==
    /\ m_contextMutex = NoThread
    /\ m_pipeline \in {<<>>, <<"f1">>, <<"f1", "f2">>}
    /\ m_sharedContext = FALSE
    /\ m_filters = <<>>
    /\ m_plugins = <<>>
    /\ m_result = NoResult
    /\ ctx_mutex = NoThread
    /\ deleted = {}
    /\ cpc = [w \in WorkerIds |-> "idle"]
    /\ npc = "idle"
    /\ nargs = NoArgs
    /\ aborted = FALSE

\* ControlPipeline::getExecutionContext of a shared pipeline, under
\* m_contextMutex: the shared context is created on first use.
getExecutionContext(w) ==
    /\ ~aborted
    /\ cpc[w] = "idle"
    /\ m_contextMutex = NoThread
    /\ IF m_sharedContext
       THEN UNCHANGED <<m_sharedContext, m_filters, m_plugins, m_result>>
       ELSE /\ m_sharedContext' = TRUE
            /\ m_filters' = m_pipeline
            /\ m_plugins' = <<>>
            /\ m_result' = NoResult
    /\ cpc' = [cpc EXCEPT ![w] = "call"]
    /\ UNCHANGED <<m_contextMutex, m_pipeline, ctx_mutex, deleted, npc, nargs, aborted,
                   notContext>>

\* PipelineExecutionContext::filter: lock_guard<mutex> guard(m_mutex)
F_Lock(w) ==
    /\ ~aborted
    /\ cpc[w] = "call"
    /\ ContextCanLock(w)
    /\ ctx_mutex' = w
    /\ cpc' = [cpc EXCEPT ![w] = "load"]
    /\ UNCHANGED <<m_contextMutex, m_pipeline, m_sharedContext, m_filters, m_plugins,
                   m_result, deleted, npc, nargs, aborted, notContext>>

\* filter: loadPipeline() when there is no plugin (the first `loaded` filters
\* load, the next one fails), and the return of NULL when there still is none.
F_Load(w, loaded) ==
    /\ ~aborted
    /\ cpc[w] = "load"
    /\ loaded \in 0 .. Len(m_filters)
    /\ IF m_plugins = <<>>
       THEN /\ m_plugins' = SubSeq(m_filters, 1, loaded)
            /\ deleted' = deleted \ SeqToSet(m_plugins')
       ELSE /\ loaded = Len(m_filters)
            /\ UNCHANGED <<m_plugins, deleted>>
    /\ IF m_plugins' = <<>>
       THEN /\ cpc' = [cpc EXCEPT ![w] = "idle"]
            /\ ctx_mutex' = NoThread
       ELSE /\ cpc' = [cpc EXCEPT ![w] = "ingest"]
            /\ UNCHANGED ctx_mutex
    /\ UNCHANGED <<m_contextMutex, m_pipeline, m_sharedContext, m_filters, m_result,
                   npc, nargs, aborted, notContext>>

\* filter: m_plugins[0]->ingest(readingSet).  The chain hands an empty set or
\* a set of one reading to useFilteredData, or hands nothing on.  With no
\* element 0, or a deleted plugin there, the call is undefined.
F_Ingest(w, out, ub) ==
    /\ ~aborted
    /\ cpc[w] = "ingest"
    /\ IF (m_plugins = <<>> \/ m_plugins[1] \in deleted) /\ ub = "abort"
       THEN /\ aborted' = TRUE
            /\ UNCHANGED <<m_result, cpc>>
       ELSE /\ UNCHANGED aborted
            /\ IF out = "withheld"
               THEN /\ UNCHANGED m_result
                    /\ cpc' = [cpc EXCEPT ![w] = "result_unwritten"]
               ELSE /\ m_result' = [set |-> TRUE, count |-> IF out = "reading" THEN 1 ELSE 0,
                                    writer |-> w, unread |-> TRUE]
                    /\ cpc' = [cpc EXCEPT ![w] = "result"]
    /\ UNCHANGED <<m_contextMutex, m_pipeline, m_sharedContext, m_filters, m_plugins,
                   ctx_mutex, deleted, npc, nargs, notContext>>

\* filter: `if (m_result && m_result->getCount() > 0)`, m_result->clear(), the
\* return, and the release of m_mutex.  Reading m_result before anything was
\* stored in it is undefined.
F_Result(w, ub) ==
    /\ ~aborted
    /\ cpc[w] \in {"result", "result_unwritten"}
    /\ IF ~m_result.set /\ ub = "abort"
       THEN /\ aborted' = TRUE
            /\ UNCHANGED <<m_result, cpc, ctx_mutex>>
       ELSE /\ UNCHANGED aborted
            /\ m_result' = [m_result EXCEPT !.count = 0, !.unread = FALSE]
            /\ cpc' = [cpc EXCEPT ![w] = "idle"]
            /\ ctx_mutex' = NoThread
    /\ UNCHANGED <<m_contextMutex, m_pipeline, m_sharedContext, m_filters, m_plugins,
                   deleted, npc, nargs, notContext>>

\* ControlPipeline::addFilter up to the call into the shared context:
\* m_contextMutex is taken and the name inserted in m_pipeline.
addFilter_Pipeline(filter, order) ==
    /\ ~aborted
    /\ npc = "idle"
    /\ m_contextMutex = NoThread
    /\ filter \notin SeqToSet(m_pipeline)
    /\ order \in 1 .. Len(m_pipeline) + 1
    /\ m_pipeline' = InsertAt(m_pipeline, order - 1, filter)
    /\ IF m_sharedContext
       THEN /\ m_contextMutex' = NotifyThread
            /\ npc' = "add"
            /\ nargs' = [filter |-> filter, order |-> order, index |-> 0]
       ELSE UNCHANGED <<m_contextMutex, npc, nargs>>
    /\ UNCHANGED <<m_sharedContext, m_filters, m_plugins, m_result, ctx_mutex, deleted,
                   cpc, aborted, notContext>>

\* PipelineExecutionContext::addFilter: m_mutex is taken and the name
\* inserted in m_filters.
addFilter_Lock ==
    /\ ~aborted
    /\ npc = "add"
    /\ ContextCanLock(NotifyThread)
    /\ ctx_mutex' = NotifyThread
    /\ m_filters' = InsertAt(m_filters, nargs.order - 1, nargs.filter)
    /\ npc' = "add_plugin"
    /\ UNCHANGED <<m_contextMutex, m_pipeline, m_sharedContext, m_plugins, m_result,
                   deleted, cpc, nargs, aborted, notContext>>

\* PipelineExecutionContext::addFilter, the rest: the plugin is loaded (or
\* not) and inserted in m_plugins; both mutexes are released on return.
\* Inserting beyond the end of m_plugins is undefined.
addFilter_Plugin(ok, ub) ==
    /\ ~aborted
    /\ npc = "add_plugin"
    /\ IF ok /\ nargs.order - 1 > Len(m_plugins) /\ ub = "abort"
       THEN /\ aborted' = TRUE
            /\ UNCHANGED <<m_plugins, deleted, ctx_mutex, m_contextMutex, npc, nargs>>
       ELSE /\ UNCHANGED aborted
            /\ IF ok /\ nargs.order - 1 <= Len(m_plugins)
               THEN /\ m_plugins' = InsertAt(m_plugins, nargs.order - 1, nargs.filter)
                    /\ deleted' = deleted \ {nargs.filter}
               ELSE UNCHANGED <<m_plugins, deleted>>
            /\ ctx_mutex' = NoThread
            /\ m_contextMutex' = NoThread
            /\ npc' = "idle"
            /\ nargs' = NoArgs
    /\ UNCHANGED <<m_pipeline, m_sharedContext, m_filters, m_result, cpc, notContext>>

\* ControlPipeline::removeFilter up to the call into the shared context:
\* m_contextMutex is taken and the name erased from m_pipeline.
removeFilter_Pipeline(filter) ==
    /\ ~aborted
    /\ npc = "idle"
    /\ m_contextMutex = NoThread
    /\ filter \in SeqToSet(m_pipeline)
    /\ m_pipeline' = EraseAt(m_pipeline, IndexOf(m_pipeline, filter))
    /\ IF m_sharedContext
       THEN /\ m_contextMutex' = NotifyThread
            /\ npc' = "remove"
            /\ nargs' = [filter |-> filter, order |-> 0, index |-> 0]
       ELSE UNCHANGED <<m_contextMutex, npc, nargs>>
    /\ UNCHANGED <<m_sharedContext, m_filters, m_plugins, m_result, ctx_mutex, deleted,
                   cpc, aborted, notContext>>

\* PipelineExecutionContext::removeFilter: the name is looked up in m_filters
\* and erased.  m_mutex is not taken.
removeFilter_Filters ==
    /\ ~aborted
    /\ npc = "remove"
    /\ LET index == IndexOf(m_filters, nargs.filter)
       IN  /\ nargs' = [nargs EXCEPT !.index = index]
           /\ m_filters' = IF index < Len(m_filters) THEN EraseAt(m_filters, index)
                           ELSE m_filters
    /\ npc' = "remove_plugin"
    /\ UNCHANGED <<m_contextMutex, m_pipeline, m_sharedContext, m_plugins, m_result,
                   ctx_mutex, deleted, cpc, aborted, notContext>>

\* removeFilter: m_plugins[index]->shutdown(), m_plugins.erase(begin + index),
\* delete m_plugins[index].  An index beyond the vector is undefined; the
\* delete acts on the element that follows the erased one, and one past the
\* end (where the erased pointer may still lie) when there is none.
removeFilter_Plugins(ub) ==
    /\ ~aborted
    /\ npc = "remove_plugin"
    /\ LET index == nargs.index
           erased == EraseAt(m_plugins, index)
       IN  IF index >= Len(m_plugins)
           THEN /\ aborted' = (ub = "abort")
                /\ UNCHANGED <<m_plugins, deleted>>
           ELSE /\ m_plugins' = erased
                /\ IF index < Len(erased)
                   THEN /\ deleted' = deleted \cup {erased[index + 1]}
                        /\ UNCHANGED aborted
                   ELSE /\ deleted' = deleted \cup {m_plugins[index + 1]}
                        /\ aborted' = (ub = "abort")
    /\ npc' = "replumb"
    /\ UNCHANGED <<m_contextMutex, m_pipeline, m_sharedContext, m_filters, m_result,
                   ctx_mutex, cpc, nargs, notContext>>

\* removeFilter: the last plugin is initialised again when the last one was
\* removed (undefined when nothing is left, or when that plugin was deleted);
\* ControlPipeline::removeFilter then releases m_contextMutex.
removeFilter_Replumb(ub) ==
    /\ ~aborted
    /\ npc = "replumb"
    /\ LET index == nargs.index
           undefined == /\ index >= Len(m_plugins)
                        /\ (index = 0 \/ index - 1 >= Len(m_plugins)
                               \/ m_plugins[index] \in deleted)
       IN  IF undefined /\ ub = "abort"
           THEN /\ aborted' = TRUE
                /\ UNCHANGED <<m_contextMutex, npc, nargs>>
           ELSE /\ UNCHANGED aborted
                /\ m_contextMutex' = NoThread
                /\ npc' = "idle"
                /\ nargs' = NoArgs
    /\ UNCHANGED <<m_pipeline, m_sharedContext, m_filters, m_plugins, m_result,
                   ctx_mutex, deleted, cpc, notContext>>

ContextNext ==
    \/ \E w \in WorkerIds : getExecutionContext(w)
    \/ \E w \in WorkerIds : F_Lock(w)
    \/ \E w \in WorkerIds, loaded \in 0 .. Cardinality(FilterNames) : F_Load(w, loaded)
    \/ \E w \in WorkerIds, out \in {"withheld", "empty", "reading"}, ub \in Undefined :
           F_Ingest(w, out, ub)
    \/ \E w \in WorkerIds, ub \in Undefined : F_Result(w, ub)
    \/ \E filter \in FilterNames, order \in 1 .. Cardinality(FilterNames) :
           addFilter_Pipeline(filter, order)
    \/ addFilter_Lock
    \/ \E ok \in BOOLEAN, ub \in Undefined : addFilter_Plugin(ok, ub)
    \/ \E filter \in FilterNames : removeFilter_Pipeline(filter)
    \/ removeFilter_Filters
    \/ \E ub \in Undefined : removeFilter_Plugins(ub)
    \/ \E ub \in Undefined : removeFilter_Replumb(ub)

(***************************************************************************)
(* Part 5: the chain of one (shared) execution context, handler by         *)
(* handler: loadPipeline on the first filter() call, and the filter insert *)
(* and delete notifications.  A plugin instance is named after its filter. *)
(***************************************************************************)
\* The number of loads and change notifications followed for one context.
MaxChanges == 4
Unplumbed == [p \in FilterNames |-> "unset"]
NoChange == [op |-> "-", filter |-> "-", order |-> 0, handled |-> FALSE, loaded |-> FALSE,
             m_filters |-> <<>>, m_plugins |-> <<>>, deleted |-> {}, m_out |-> Unplumbed,
             n |-> 0]

\* loadPipeline, second loop: every plugin is initialised with the next one
\* as its output, the last with the context (useFilteredData).
Plumb(out, plugins) ==
    [p \in FilterNames |->
        IF \E i \in DOMAIN plugins : plugins[i] = p
        THEN LET i == CHOOSE i \in DOMAIN plugins : plugins[i] = p
             IN  IF i < Len(plugins) THEN plugins[i + 1] ELSE "result"
        ELSE out[p]]

\* The context exists (a worker has fetched it) and has loaded nothing yet.
ChainInit ==
    /\ m_pipeline \in {<<>>, <<"f1">>, <<"f1", "f2">>, <<"f1", "f2", "f3">>}
    /\ m_sharedContext = TRUE
    /\ m_filters = m_pipeline
    /\ m_plugins = <<>>
    /\ deleted = {}
    /\ aborted = FALSE
    /\ m_out = Unplumbed
    /\ change = NoChange

\* PipelineExecutionContext::filter, first lines: loadPipeline() when
\* m_plugins is empty.  The first `loaded` filters load, the next one fails:
\* its plugin does not load or its category is refused (rval = false, break,
\* the plugins loaded so far are then initialised), or fetching its category
\* throws (`thrown`: the function returns from the catch block, before the
\* loop that initialises the plugins).  change.loaded is the value returned.
LoadPipeline(loaded, thrown) ==
    /\ ~aborted
    /\ change.n < MaxChanges
    /\ m_plugins = <<>>
    /\ loaded \in 0 .. Len(m_filters)
    /\ thrown => loaded < Len(m_filters)
    /\ m_plugins' = SubSeq(m_filters, 1, loaded)
    /\ m_out' = IF thrown THEN m_out ELSE Plumb(m_out, m_plugins')
    /\ deleted' = deleted \ SeqToSet(m_plugins')
    /\ change' = [NoChange EXCEPT !.op = "load", !.handled = TRUE,
                                  !.loaded = (loaded = Len(m_filters)),
                                  !.m_filters = m_filters, !.m_plugins = m_plugins,
                                  !.deleted = deleted, !.m_out = m_out,
                                  !.n = change.n + 1]
    /\ UNCHANGED <<m_pipeline, m_sharedContext, m_filters, aborted, notChain>>

\* PipelineExecutionContext::addFilter, after the insertion in m_filters: the
\* vector and the routing when the plugin was loaded.
AddedPlugins(plugins, filter, order) == InsertAt(plugins, order - 1, filter)
AddedOut(out, plugins, filter, order) ==
    LET added == AddedPlugins(plugins, filter, order)
        first == IF order < Len(added) - 1 THEN added[order + 2] ELSE "result"
        previous == added[order]
    IN  IF Len(added) > 1
        THEN [[out EXCEPT ![filter] = first] EXCEPT ![previous] = filter]
        ELSE [out EXCEPT ![filter] = first]

\* ControlPipelineManager::insertPipelineFilter: the row {cpid, forder, fname}
\* was inserted in the filters table.  The handler returns at once unless
\* cpid and forder are JSON integers; the plugin of the filter loads or not.
InsertPipelineFilter(filter, order, isInt, ok, ub) ==
    /\ ~aborted
    /\ change.n < MaxChanges
    /\ filter \notin SeqToSet(m_pipeline)
    /\ order \in 1 .. Len(m_pipeline) + 1
    /\ change' = [op |-> "insert", filter |-> filter, order |-> order, handled |-> isInt,
                  loaded |-> ok, m_filters |-> m_filters, m_plugins |-> m_plugins,
                  deleted |-> deleted, m_out |-> m_out, n |-> change.n + 1]
    /\ IF ~isInt
       THEN UNCHANGED <<m_pipeline, m_filters, m_plugins, m_out, deleted, aborted>>
       ELSE /\ m_pipeline' = InsertAt(m_pipeline, order - 1, filter)
            /\ m_filters' = InsertAt(m_filters, order - 1, filter)
            /\ IF ~ok
               THEN UNCHANGED <<m_plugins, m_out, deleted, aborted>>
               ELSE IF order - 1 > Len(m_plugins)
               THEN /\ aborted' = (ub = "abort")
                    /\ UNCHANGED <<m_plugins, m_out, deleted>>
               ELSE /\ m_plugins' = AddedPlugins(m_plugins, filter, order)
                    /\ m_out' = AddedOut(m_out, m_plugins, filter, order)
                    /\ deleted' = deleted \ {filter}
                    /\ UNCHANGED aborted
    /\ UNCHANGED <<m_sharedContext, notChain>>

\* ControlPipeline::removeFilter(filter) -> PipelineExecutionContext::
\* removeFilter(filter) of the shared context.  The caller,
\* ControlPipelineManager::deletePipelineFilter, passes whatever name
\* getFromJSONWhere gave it and does not look whether the pipeline has such a
\* filter.  With a name that is not in m_filters, index is m_filters.size().
\* m_plugins[index] at or past the end of the vector is undefined behaviour.
removeFilter(filter, ub) ==
    /\ ~aborted
    /\ change.n < MaxChanges
    /\ change' = [op |-> "delete", filter |-> filter, order |-> 0, handled |-> TRUE,
                  loaded |-> FALSE, m_filters |-> m_filters, m_plugins |-> m_plugins,
                  deleted |-> deleted, m_out |-> m_out, n |-> change.n + 1]
    /\ m_pipeline' = EraseAt(m_pipeline, IndexOf(m_pipeline, filter))
    /\ LET index == IndexOf(m_filters, filter)
           erased == EraseAt(m_plugins, index)
       IN  /\ m_filters' = IF index < Len(m_filters) THEN EraseAt(m_filters, index)
                           ELSE m_filters
           /\ IF index >= Len(m_plugins)
              THEN /\ aborted' = (ub = "abort")
                   /\ UNCHANGED <<m_plugins, m_out, deleted>>
              ELSE /\ m_plugins' = erased
                   /\ IF index < Len(erased)
                      THEN /\ deleted' = deleted \cup {erased[index + 1]}
                           /\ m_out' = m_out
                           /\ UNCHANGED aborted
                      ELSE /\ deleted' = deleted \cup {m_plugins[index + 1]}
                           /\ IF index = 0
                              THEN /\ aborted' = (ub = "abort")
                                   /\ m_out' = m_out
                              ELSE /\ m_out' = [m_out EXCEPT ![erased[index]] = "result"]
                                   /\ UNCHANGED aborted
    /\ UNCHANGED <<m_sharedContext, notChain>>

ChainNext ==
    \/ \E loaded \in 0 .. Cardinality(FilterNames), thrown \in BOOLEAN :
           LoadPipeline(loaded, thrown)
    \/ \E filter \in FilterNames, order \in 1 .. Cardinality(FilterNames),
          isInt \in BOOLEAN, ok \in BOOLEAN, ub \in Undefined :
           InsertPipelineFilter(filter, order, isInt, ok, ub)
    \/ \E filter \in FilterNames, ub \in Undefined : removeFilter(filter, ub)

(***************************************************************************)
(* Part 6: ControlPipeline::getExecutionContext for an exclusive pipeline. *)
(* A context is identified by its address.                                 *)
(***************************************************************************)
MaxContexts == 3
Addresses == 1 .. MaxContexts

\* WriteControlRequest::filter always passes EndpointAny as the source; the
\* destination is the request's getDestination(), whose name is the "name"
\* string of the payload (any string, the empty one included).
ContextSources == { EndpointAny }
ContextDests == { PipelineEndpoint("EndpointService", "Y"),
                  PipelineEndpoint("EndpointService", ""),
                  PipelineEndpoint("EndpointScript", "S"),
                  PipelineEndpoint("EndpointBroadcast", "") }

ContextEndpoints(context, source, dest) ==
    [m_context |-> context, m_source |-> source, m_dest |-> dest]

\* ContextEndpoints::operator==(rhs), with `lhs` the stored entry.
ContextEndpointsEq(lhs, rhs) ==
    EndpointMatch(lhs.m_source, rhs.m_source) /\ EndpointMatch(lhs.m_dest, rhs.m_dest)

\* std::vector::push_back reallocates when size() = capacity(); the capacity
\* doubles (0, 1, 2, 4, ...).
Reallocates(size) == size \in {1, 2, 4, 8}

NoContext == 0
NoHanded == [source |-> EndpointAny, dest |-> EndpointAny, context |-> NoContext,
             reused |-> FALSE, stored |-> ContextEndpoints(NoContext, EndpointAny, EndpointAny)]

ExclusiveInit ==
    /\ m_contexts = <<>>
    /\ freed = {}
    /\ handed = NoHanded
    /\ encountered = {}
    /\ aborted = FALSE

\* getExecutionContext(source, dest) with m_exclusive set.  `address` is what
\* operator new returns for a new context, `ub` the outcome of deleting an
\* already deleted context when push_back reallocates the vector.
getExclusiveContext(source, dest, address, ub) ==
    /\ ~aborted
    /\ LET ends == ContextEndpoints(NoContext, source, dest)
           hits == { i \in DOMAIN m_contexts : ContextEndpointsEq(m_contexts[i], ends) }
       IN  IF hits # {}
           THEN LET it == m_contexts[CHOOSE i \in hits : \A j \in hits : i <= j]
                IN  /\ handed' = [source |-> source, dest |-> dest, context |-> it.m_context,
                                  reused |-> TRUE, stored |-> it]
                    /\ UNCHANGED <<m_contexts, freed, aborted>>
           ELSE /\ Len(m_contexts) < MaxContexts
                /\ m_contexts' = Append(m_contexts, ContextEndpoints(address, source, dest))
                \* `ends` is destroyed on return: ~ContextEndpoints deletes m_context
                /\ freed' = freed \cup {address}
                /\ aborted' = (Reallocates(Len(m_contexts)) /\ ub = "abort")
                /\ handed' = [source |-> source, dest |-> dest, context |-> address,
                              reused |-> FALSE,
                              stored |-> ContextEndpoints(address, source, dest)]
    /\ encountered' = encountered \cup {<<source, dest>>}
    /\ UNCHANGED notExclusive

ExclusiveNext ==
    \E source \in ContextSources, dest \in ContextDests, address \in Addresses, ub \in Undefined :
        getExclusiveContext(source, dest, address, ub)

(***************************************************************************)
(* Part 7: KVList.  One list goes through toReading and fromReading, or    *)
(* through substitute(parameters), whose while loop is followed iteration  *)
(* by iteration.  Values are sequences of characters; so are the keys of   *)
(* `parameters`, which are compared with text cut out of a value.          *)
(***************************************************************************)
MaxRval == 6

\* std::string::npos is size_t(-1): adding one to it wraps round to 0.
npos == 0 - 1
SizePlusOne(n) == IF n = npos THEN 0 ELSE n + 1

\* value.find_first_of("$", pos): offsets count from 0.
find_first_of(value, pos) ==
    LET hits == { i \in DOMAIN value : i - 1 >= pos /\ value[i] = "$" }
    IN  IF hits = {} THEN npos ELSE (CHOOSE i \in hits : \A j \in hits : i <= j) - 1

\* value.substr(pos, n) and value.substr(pos)
substr(value, pos, n) == SubSeq(value, pos + 1, pos + n)
substrFrom(value, pos) == SubSeq(value, pos + 1, Len(value))

\* KVList::getValue: the value of the first pair with the key, "" without one.
getValueLast(list, key) ==
    LET hits == { i \in DOMAIN list : list[i].first = key }
    IN  IF hits = {} THEN <<>> ELSE list[CHOOSE i \in hits : \A j \in hits : i >= j].second
getValue(list, key) ==
    LET hits == { i \in DOMAIN list : list[i].first = key }
    IN  IF hits = {} THEN <<>> ELSE list[CHOOSE i \in hits : \A j \in hits : i <= j].second

\* The body of the while loop of substitute(value, values), entered with
\* dstart = find_first_of(value, p1) # npos: the new rval and p1.
LoopBody(value, values, p1v, rv) ==
    LET dstart == find_first_of(value, p1v)
        dend == find_first_of(value, dstart + 1)
        var == substr(value, dstart + 1, dend - (dstart + 1))
    IN  [rval |-> rv \o substr(value, p1v, dstart - p1v)
                     \o (IF dend # npos THEN getValue(values, var) ELSE <<>>),
         p1 |-> SizePlusOne(dend)]

\* The lines after the loop: the new content of value.
LoopExit(value, p1v, rv) == rv \o substrFrom(value, p1v)

\* substitute(value, values) run for at most `rounds` iterations of its loop:
\* whether it came to its end, and the value it left.
RECURSIVE substituteValue(_, _, _, _, _)
substituteValue(value, values, p1v, rv, rounds) ==
    IF find_first_of(value, p1v) = npos
    THEN [ended |-> TRUE, value |-> LoopExit(value, p1v, rv)]
    ELSE IF rounds = 0
    THEN [ended |-> FALSE, value |-> value]
    ELSE LET next == LoopBody(value, values, p1v, rv)
         IN  substituteValue(value, values, next.p1, next.rval, rounds - 1)

\* The values a list can hold.
PlainValues ==
    { <<>>, <<"7">>, <<"0", "0", "7">>, <<"1", ".", "5">>, <<"1", ".", "5", "0">>,
      <<"o", "n">>, <<"a", ".", "b">>,
      <<"1", ".", "2", ".", "3">>, <<"1", ".", "x">>, <<"x", "1">> }
MacroValues ==
    { <<"$", "k", "$">>, <<"a", "$", "k", "$", "b">>, <<"$", "k", "$", "$", "j", "$">>,
      <<"$", "m", "$", "x">>, <<"$", "$">>,
      <<"$", "k">>, <<"a", "$">>, <<"$", "k", "$", "-", "$">> }
KVValues == PlainValues \cup MacroValues
KVLists ==
    {<<>>} \cup { <<Pair("a", v)>> : v \in KVValues }
           \cup { <<Pair("a", v), Pair("b", w)>> : v \in MacroValues, w \in KVValues }
Parameters ==
    { <<>>,
      <<Pair(<<"k">>, <<"v">>)>>,
      <<Pair(<<"k">>, <<"1">>), Pair(<<"k">>, <<"2">>)>>,
      <<Pair(<<"k">>, <<"$", "j", "$">>), Pair(<<"j">>, <<"w">>)>> }

KVListInit ==
    /\ kvlist \in KVLists
    /\ parameters \in Parameters
    /\ original = kvlist
    /\ kop = "-"
    /\ kpc = "ready"
    /\ entry = 0
    /\ p1 = 0
    /\ rval = <<>>
    /\ aborted = FALSE

\* m_values.toReading("reading") followed by m_values.fromReading(reading),
\* the reading untouched in between.
K_RoundTrip ==
    /\ kpc = "ready"
    /\ kvlist' = fromReading(toReading(kvlist))
    /\ kop' = "roundtrip"
    /\ kpc' = "done"
    /\ UNCHANGED <<parameters, original, entry, p1, rval, aborted, notKVList>>

\* KVList::substitute(values): `for (auto& value : m_list)` reaches its
\* first entry, or ends at once on an empty list.
K_Substitute ==
    /\ kpc = "ready"
    /\ kop' = "substitute"
    /\ kpc' = IF kvlist = <<>> THEN "done" ELSE "loop"
    /\ entry' = IF kvlist = <<>> THEN 0 ELSE 1
    /\ p1' = 0
    /\ rval' = <<>>
    /\ UNCHANGED <<kvlist, parameters, original, aborted, notKVList>>

\* One evaluation of the while condition of substitute(value, values) and
\* what follows it: an iteration of the body, or the lines after the loop
\* and the move to the next entry of m_list.  rval grows until the
\* allocation of a longer string fails.
K_Iterate ==
    /\ kpc = "loop"
    /\ LET value == kvlist[entry].second
           dstart == find_first_of(value, p1)
       IN  IF dstart # npos
           THEN LET next == LoopBody(value, parameters, p1, rval)
                IN  IF Len(next.rval) > MaxRval
                    THEN /\ aborted' = TRUE
                         /\ kpc' = "dead"
                         /\ UNCHANGED <<kvlist, entry, p1, rval>>
                    ELSE /\ rval' = next.rval
                         /\ p1' = next.p1
                         /\ UNCHANGED <<kvlist, entry, kpc, aborted>>
           ELSE /\ kvlist' = [kvlist EXCEPT ![entry].second = LoopExit(value, p1, rval)]
                /\ IF entry < Len(kvlist)
                   THEN /\ entry' = entry + 1
                        /\ kpc' = "loop"
                   ELSE /\ entry' = entry
                        /\ kpc' = "done"
                /\ p1' = 0
                /\ rval' = <<>>
                /\ UNCHANGED aborted
    /\ UNCHANGED <<parameters, original, kop, notKVList>>

KVListNext ==
    \/ K_RoundTrip
    \/ K_Substitute
    \/ K_Iterate

(***************************************************************************)
(* Part 8: automation scripts.  A write request to a script executes the   *)
(* script: it is loaded from the scripts table, its ACL is validated, its  *)
(* steps are parsed into m_steps and then executed one by one; a script    *)
(* step executes another script in the same way, one frame deeper.         *)
(***************************************************************************)
MaxDepth == 3

\* ---- the stored scripts: control_script rows {name, steps, acl} ----
NoCondition == [key |-> <<>>, condition |-> "", value |-> <<>>]
ModeIsOn == [key |-> <<"m", "o", "d", "e">>, condition |-> "==", value |-> <<"o", "n">>]

\* One {type: {...}} item of the steps array.
JsonStep(type, hasOrder, order, values, name, condition) ==
    [type |-> type, hasOrder |-> hasOrder, order |-> order, service |-> "svc",
     values |-> values, name |-> name, condition |-> condition]
JsonWrite(order, value, condition) ==
    JsonStep("write", TRUE, order, <<Pair("x", value)>>, "", condition)

ScriptTable ==
    [name \in {"seq", "demo", "guarded", "outer", "self", "ping", "pong", "dup", "lost", "bad"} |->
        CASE name = "seq" ->
                [acl |-> "",
                 steps |-> << JsonWrite(3, <<"3">>, NoCondition),
                              JsonWrite(1, <<"$", "v", "$">>, NoCondition),
                              JsonWrite(2, <<"2">>, NoCondition) >>]
          [] name = "demo" ->
                [acl |-> "",
                 steps |-> << JsonWrite(1, <<"$", "v", "$">>, ModeIsOn),
                              JsonStep("delay", TRUE, 2, <<>>, "", NoCondition),
                              JsonWrite(3, <<"0">>, NoCondition) >>]
          [] name = "guarded" ->
                [acl |-> "acl1",
                 steps |-> << JsonStep("config", TRUE, 1, <<>>, "", NoCondition),
                              JsonWrite(2, <<"1">>, NoCondition) >>]
          [] name = "outer" ->
                [acl |-> "",
                 steps |-> << JsonStep("script", TRUE, 1, <<>>, "guarded", NoCondition),
                              JsonWrite(2, <<"9">>, NoCondition) >>]
          [] name = "self" ->
                [acl |-> "",
                 steps |-> << JsonStep("script", TRUE, 1, <<>>, "self", NoCondition) >>]
          [] name = "ping" ->
                [acl |-> "",
                 steps |-> << JsonStep("script", TRUE, 1, <<>>, "pong", NoCondition) >>]
          [] name = "pong" ->
                [acl |-> "",
                 steps |-> << JsonWrite(1, <<"p">>, NoCondition),
                              JsonStep("script", TRUE, 2, <<>>, "ping", NoCondition) >>]
          [] name = "dup" ->
                [acl |-> "",
                 steps |-> << JsonWrite(1, <<"1">>, NoCondition),
                              JsonWrite(1, <<"2">>, NoCondition) >>]
          [] name = "lost" ->
                [acl |-> "none",
                 steps |-> << JsonWrite(1, <<"1">>, NoCondition) >>]
          [] OTHER ->
                [acl |-> "",
                 steps |-> << JsonWrite(1, <<"1">>, NoCondition),
                              JsonStep("write", FALSE, 0, <<>>, "", NoCondition),
                              JsonStep("purge", TRUE, 3, <<>>, "", NoCondition) >>]]
ScriptNames == DOMAIN ScriptTable \cup {"missing"}

\* The parameters of a request and the callers of the model.
ScriptParameters ==
    { <<Pair(<<"m", "o", "d", "e">>, <<"o", "n">>), Pair(<<"v">>, <<"9">>)>>,
      <<Pair(<<"m", "o", "d", "e">>, <<"o", "f", "f">>), Pair(<<"v">>, <<"9">>)>>,
      <<Pair(<<"v">>, <<"9">>)>> }
Caller(name, type, url) == [m_source_name |-> name, m_source_type |-> type, m_request_url |-> url]
Callers == { Caller("svcA", "Notification", "/u"), Caller("svcB", "Schedule", "/u") }

\* ---- the stored ACL: the control_acl row named "acl1" ----
\* An entry of the `service` array is an object, a sequence of members; an
\* entry of the `url` array is {"url": ..., "acl": [{"type": ...}, ...]} with
\* the acl member optional.
Member(key, value) == [key |-> key, value |-> value]
ServiceEntries ==
    { <<Member("name", "svcA")>>, <<Member("name", "svcB")>>,
      <<Member("type", "Notification")>>, <<Member("type", "Schedule")>> }
ServiceArrays ==
    {<<>>} \cup { <<a>> : a \in ServiceEntries }
           \cup { <<a, b>> : a \in ServiceEntries, b \in ServiceEntries }
UrlEntry(url, hasAcl, types) == [url |-> url, hasAcl |-> hasAcl, acl |-> types]
UrlArrays ==
    { <<>>,
      <<UrlEntry("/u", FALSE, <<>>)>>,
      <<UrlEntry("/other", TRUE, <<"Notification">>)>> }
ACLs == { [service |-> sv, url |-> u] : sv \in ServiceArrays, u \in UrlArrays }

\* ---- Script::validateACL ----
\* The loop over the members of one entry of the `service` array; `m` is
\* <<matchedServiceName, matchedServiceType>> on entry.
RECURSIVE MatchMembers(_, _, _)
MatchMembers(members, m, caller) ==
    IF members = <<>> THEN m
    ELSE LET key == Head(members).key
             value == Head(members).value
             matchedServiceName == (key = "name") /\ (value = caller.m_source_name)
             matchedServiceType == (key = "type") /\ (value = caller.m_source_type)
         IN  IF matchedServiceName THEN <<TRUE, m[2]>>
             ELSE IF matchedServiceType THEN <<FALSE, TRUE>>
             ELSE MatchMembers(Tail(members), <<FALSE, FALSE>>, caller)

\* The loop over the entries of the `service` array.
RECURSIVE MatchServices(_, _, _)
MatchServices(entries, m, caller) ==
    IF entries = <<>> THEN m
    ELSE MatchServices(Tail(entries), MatchMembers(Head(entries), m, caller), caller)

\* The services part: `!matchedServiceType && !matchedServiceName` rejects.
servicesAccepted(services, caller) ==
    LET m == MatchServices(services, <<Len(services) = 0, Len(services) = 0>>, caller)
    IN  m[1] \/ m[2]

\* The loop over the array of an "acl" member; `matched` is matchedServiceType.
RECURSIVE MatchTypes(_, _, _)
MatchTypes(types, matched, caller) ==
    IF types = <<>> THEN matched
    ELSE MatchTypes(Tail(types), Head(types) = caller.m_source_type, caller)

\* One entry of the `url` array: the "url" member, then, unless the member
\* loop was left after it, the "acl" member; `m` is <<matchedUrl, matchedServiceType>>.
MatchUrlEntry(e, m, caller) ==
    LET matchedUrl == IF e.url # "" THEN e.url = caller.m_request_url ELSE m[1]
    IN  IF matchedUrl \/ m[2] \/ ~e.hasAcl THEN <<matchedUrl, m[2]>>
        ELSE <<matchedUrl, MatchTypes(e.acl, Len(e.acl) = 0, caller)>>

RECURSIVE MatchUrls(_, _, _)
MatchUrls(entries, m, caller) ==
    IF entries = <<>> THEN m
    ELSE MatchUrls(Tail(entries), MatchUrlEntry(Head(entries), m, caller), caller)

\* The url part: `!matchedServiceType && !matchedUrl` rejects.
urlAccepted(urls, caller) ==
    LET m == MatchUrls(urls, <<Len(urls) = 0, Len(urls) = 0>>, caller)
    IN  m[1] \/ m[2]

\* validateACL for a script whose acl column names the stored ACL.
validateACLAlways(row, caller) == TRUE
validateACL(row, caller) ==
    servicesAccepted(row.service, caller) /\ urlAccepted(row.url, caller)

\* ---- Script::load: the steps array becomes m_steps ----
\* Script::parseStep: the step object built from a JSON step, or NULL.  The
\* condition of the JSON step is not read here, and load does not call
\* Script::addCondition: m_key, m_op and m_value keep their empty default.
Null == [null |-> TRUE, type |-> "", m_service |-> "", m_values |-> <<>>, m_name |-> "",
         m_key |-> <<>>, m_op |-> "", m_value |-> <<>>]
parseStep(type, step) ==
    IF type \in {"write", "operation", "delay", "config", "script"}
    THEN [null |-> FALSE, type |-> type, m_service |-> step.service,
          m_values |-> step.values, m_name |-> step.name,
          m_key |-> <<>>, m_op |-> "", m_value |-> <<>>]
    ELSE Null

\* m_steps is a std::map<int, ScriptStep *>, kept here as the sequence of its
\* <<stepNo, step>> entries in key order.
HasStep(m_steps, stepNo) == \E i \in DOMAIN m_steps : m_steps[i][1] = stepNo
addStepBack(m_steps, stepNo, step) == Append(m_steps, <<stepNo, step>>)
addStep(m_steps, stepNo, step) ==
    LET before == { i \in DOMAIN m_steps : m_steps[i][1] < stepNo }
    IN  SubSeq(m_steps, 1, Cardinality(before)) \o <<<<stepNo, step>>>>
            \o SubSeq(m_steps, Cardinality(before) + 1, Len(m_steps))

\* The loop of Script::load over the steps array: <<ok, m_steps>>.
RECURSIVE loadSteps(_, _)
loadSteps(steps, m_steps) ==
    IF steps = <<>> THEN <<TRUE, m_steps>>
    ELSE LET step == Head(steps)
             s == parseStep(step.type, step)
         IN  IF ~step.hasOrder \/ s.null \/ HasStep(m_steps, step.order)
             THEN <<FALSE, m_steps>>
             ELSE loadSteps(Tail(steps), addStep(m_steps, step.order, s))

\* ScriptStep::evaluate
evaluate(step, params) ==
    IF step.m_key = <<>> THEN TRUE
    ELSE LET value == getValue(params, step.m_key)
         IN  IF value = <<>> THEN FALSE
             ELSE IF step.m_op # "==" THEN value = step.m_value
             ELSE IF step.m_op # "!=" THEN value = step.m_value
             ELSE TRUE

\* KVList::substitute(values) on the values of a step, run to its end:
\* the list it leaves, or <<>> with ended = FALSE when a loop does not end.
substituteList(list, values) ==
    LET each == [i \in DOMAIN list |->
                    substituteValue(list[i].second, values, 0, <<>>, Len(list[i].second))]
    IN  [ended |-> \A i \in DOMAIN list : each[i].ended,
         list |-> [i \in DOMAIN list |-> Pair(list[i].first, each[i].value)]]

\* What a function that ends without a return statement hands to its caller.
MissingReturn == {"true", "false", "abort"}

NoCall == [script |-> "", parameters |-> <<>>, caller |-> Caller("", "", ""),
           state |-> "idle", result |-> FALSE, frames |-> 0]
NoVerdict == [script |-> "", checked |-> FALSE, services |-> FALSE, url |-> FALSE]
Frame(id, name) == [id |-> id, m_name |-> name, m_loaded |-> FALSE, m_steps |-> <<>>, next |-> 1]
Event(frame, stepNo, step, sent, payload, changed, res) ==
    [frame |-> frame.id, script |-> frame.m_name, order |-> stepNo, type |-> step.type,
     sent |-> sent, payload |-> payload, changed |-> changed, res |-> res]

ScriptInit ==
    /\ acl \in ACLs
    /\ call = NoCall
    /\ stack = <<>>
    /\ trace = <<>>
    /\ verdict = NoVerdict
    /\ aborted = FALSE

\* ControlWriteScriptRequest::execute: a Script object is built for the name
\* of the request and executed with the values of the request.
X_Request(name, params, caller) ==
    /\ ~aborted
    /\ call.state # "running"
    /\ call' = [script |-> name, parameters |-> params, caller |-> caller,
                state |-> "running", result |-> FALSE, frames |-> 1]
    /\ stack' = <<Frame(1, name)>>
    /\ trace' = <<>>
    /\ verdict' = NoVerdict
    /\ UNCHANGED <<acl, aborted, notScript>>

\* Script::load for the script `name`: whether it succeeded, the steps it
\* stored, and what validateACL found when it looked at the stored ACL.
load(name, caller, row) ==
    LET failed == [ok |-> FALSE, m_steps |-> <<>>, verdict |-> NoVerdict]
    IN  IF name \notin DOMAIN ScriptTable THEN failed
        ELSE LET script == ScriptTable[name]
                 steps == loadSteps(script.steps, <<>>)
                 parsed == [ok |-> steps[1], m_steps |-> steps[2], verdict |-> NoVerdict]
                 services == servicesAccepted(row.service, caller)
                 found == [script |-> name, checked |-> TRUE, services |-> services,
                           url |-> services /\ urlAccepted(row.url, caller)]
             IN  IF script.acl = "" THEN parsed
                 ELSE IF script.acl # "acl1" THEN failed
                 ELSE IF ~validateACL(row, caller) THEN [failed EXCEPT !.verdict = found]
                 ELSE [parsed EXCEPT !.verdict = found]

\* Script::execute, lines 36-42, for the script on top of the stack.  A
\* failed load makes execute return false, and so does every script that is
\* executing a script step further down the stack.
X_Load ==
    /\ ~aborted
    /\ stack # <<>>
    /\ ~stack[Len(stack)].m_loaded
    /\ LET top == stack[Len(stack)]
           loaded == load(top.m_name, call.caller, acl)
       IN  /\ verdict' = IF loaded.verdict.checked THEN loaded.verdict ELSE verdict
           /\ IF loaded.ok
              THEN /\ stack' = [stack EXCEPT ![Len(stack)] =
                                   [top EXCEPT !.m_loaded = TRUE, !.m_steps = loaded.m_steps]]
                   /\ UNCHANGED call
              ELSE /\ stack' = <<>>
                   /\ call' = [call EXCEPT !.state = "returned", !.result = FALSE]
    /\ UNCHANGED <<acl, trace, aborted, notScript>>

\* One round of the loop of Script::execute: the next step of the script on
\* top of the stack is executed.  `ok` is what sendToService returns, `ub`
\* what comes back from DelayScriptStep::execute and ConfigScriptStep::execute,
\* which end without a return statement.
X_Step(ok, ub) ==
    /\ ~aborted
    /\ stack # <<>>
    /\ stack[Len(stack)].m_loaded
    /\ stack[Len(stack)].next <= Len(stack[Len(stack)].m_steps)
    /\ LET top == stack[Len(stack)]
           stepNo == top.m_steps[top.next][1]
           step == top.m_steps[top.next][2]
           run == evaluate(step, call.parameters)
           values == substituteList(step.m_values, call.parameters)
           sends == run /\ step.type \in {"write", "operation"} /\ values.ended
           res == CASE step.type \in {"write", "operation"} ->
                          IF ~run THEN "true"
                          ELSE IF ~values.ended THEN "abort"
                          ELSE IF ok THEN "true" ELSE "false"
                    [] step.type = "delay" -> ub
                    [] step.type = "config" -> IF ~run THEN "true" ELSE ub
                    [] OTHER ->
                          IF ~run THEN "true"
                          ELSE IF Len(stack) >= MaxDepth THEN "abort" ELSE "call"
           event == Event(top, stepNo, step, sends, IF sends THEN values.list ELSE <<>>,
                          run /\ step.type = "config", res)
       IN  /\ trace' = Append(trace, event)
           /\ CASE res = "true" ->
                      /\ stack' = [stack EXCEPT ![Len(stack)].next = top.next + 1]
                      /\ UNCHANGED <<call, aborted>>
                [] res = "false" ->
                      /\ stack' = <<>>
                      /\ call' = [call EXCEPT !.state = "returned", !.result = FALSE]
                      /\ UNCHANGED aborted
                [] res = "call" ->
                      /\ stack' = Append(stack, Frame(call.frames + 1, step.m_name))
                      /\ call' = [call EXCEPT !.frames = call.frames + 1]
                      /\ UNCHANGED aborted
                [] OTHER ->
                      /\ aborted' = TRUE
                      /\ UNCHANGED <<stack, call>>
    /\ UNCHANGED <<acl, verdict, notScript>>

\* Script::execute, line 73: the loop is over and the script returns true, to
\* the request or to the script step that executed it.
X_Return ==
    /\ ~aborted
    /\ stack # <<>>
    /\ stack[Len(stack)].m_loaded
    /\ stack[Len(stack)].next > Len(stack[Len(stack)].m_steps)
    /\ IF Len(stack) = 1
       THEN /\ stack' = <<>>
            /\ call' = [call EXCEPT !.state = "returned", !.result = TRUE]
       ELSE /\ stack' = [SubSeq(stack, 1, Len(stack) - 1) EXCEPT
                            ![Len(stack) - 1].next = stack[Len(stack) - 1].next + 1]
            /\ UNCHANGED call
    /\ UNCHANGED <<acl, trace, verdict, aborted, notScript>>

ScriptNext ==
    \/ \E name \in ScriptNames, params \in ScriptParameters, caller \in Callers :
           X_Request(name, params, caller)
    \/ X_Load
    \/ \E ok \in BOOLEAN, ub \in MissingReturn : X_Step(ok, ub)
    \/ X_Return

(***************************************************************************)
(* Part 9: the filter update and delete notifications of the               *)
(* control_filters table.  The storage layer sends the where clause of the *)
(* statement; the handlers read the pipeline id and the filter name from   *)
(* it with getFromJSONWhere and call reorder or removeFilter on the        *)
(* pipeline.  Strings are sequences of characters.  No execution context   *)
(* has been created yet for the pipelines of this part.                    *)
(***************************************************************************)
\* A JSON value of a clause: a string, an integer, or no value at all.
NoValue == [type |-> "absent", text |-> <<>>, number |-> 0]
StringValue(text) == [type |-> "string", text |-> text, number |-> 0]
IntValue(n) == [type |-> "int", text |-> <<>>, number |-> n]

\* {"column": column, "condition": "=", "value": value}
Clause(column, value) == [column |-> column, value |-> value]
NoClause == Clause("-", NoValue)

\* {"values": {"forder": forder}, "where": {where..., "and": {and...}}}
ChangeDoc(where, and, forder) == [where |-> where, and |-> and, forder |-> forder]
NoNotice == ChangeDoc(NoClause, NoClause, NoValue)

\* The character with a given code: `result = <long>` on a std::string picks
\* std::string::operator=(char), the long converted to char.  Codes that are
\* neither a digit, a lower-case letter nor 0 are shown as one other character.
CharCodes == 256
Letters == <<"a", "b", "c", "d", "e", "f", "g", "h", "i", "j", "k", "l", "m",
             "n", "o", "p", "q", "r", "s", "t", "u", "v", "w", "x", "y", "z">>
Chr(code) ==
    LET c == code % CharCodes
    IN  IF c \in 48 .. 57 THEN Digits[c - 47]
        ELSE IF c \in 97 .. 122 THEN Letters[c - 96]
        ELSE IF c = 0 THEN "\\0"
        ELSE "\\x"

\* ControlPipelineManager::getFromJSONWhere(doc, key).  A JSON integer
\* satisfies IsInt64(), so the IsInt() branches are never reached.
getFromJSONWhere(doc, key) ==
    IF doc.where.column = key
    THEN CASE doc.where.value.type = "string" ->
                  LongToString(strtol(doc.where.value.text))
           [] doc.where.value.type = "int" -> LongToString(doc.where.value.number)
           [] OTHER -> <<>>
    ELSE IF doc.and # NoClause /\ doc.and.column = key
    THEN CASE doc.and.value.type = "string" -> <<Chr(strtol(doc.and.value.text))>>
           [] doc.and.value.type = "int" -> <<Chr(doc.and.value.number)>>
           [] OTHER -> <<>>
    ELSE <<>>

\* The filters of the model and the pipelines holding them.
F1 == <<"f", "1">>
F7 == <<"7">>
LoadedPipeline(filters) ==
    [m_source |-> EndpointAny, m_dest |-> EndpointAny, m_pipeline |-> filters]
WherePipelines ==
    [n \in SeqToSet(PipelineNames) |->
        IF n = "P1" THEN LoadedPipeline(<<F1, F7>>) ELSE LoadedPipeline(<<F7, F1>>)]

\* The notifications of the model: the pipeline id and the filter name, one
\* in the where clause and the other in its "and" clause.
CpidValues == { StringValue(<<"1">>), IntValue(1), IntValue(49) }
FnameValues == { StringValue(F1), StringValue(F7) }
ForderValues == { IntValue(2), StringValue(<<"2">>) }
ChangeDocs ==
    { ChangeDoc(Clause("cpid", c), Clause("fname", f), o) :
          c \in CpidValues, f \in FnameValues, o \in ForderValues }
    \cup { ChangeDoc(Clause("fname", f), Clause("cpid", c), o) :
          c \in CpidValues, f \in FnameValues, o \in ForderValues }

\* ControlPipeline::reorder(filter, order) without a context: m_pipeline
\* afterwards.  `order` is within the list.
reorder(pipeline, filter, order) ==
    IF pipeline[order] = filter THEN pipeline
    ELSE IF filter \in SeqToSet(pipeline)
    THEN LET currentPosition == IndexOf(pipeline, filter) + 1
         IN  [pipeline EXCEPT ![currentPosition] = pipeline[order], ![order] = filter]
    ELSE pipeline

\* The number of notifications followed.
MaxNotices == 2
NoExtracted == [handler |-> "-", value |-> <<>>, cpid |-> 0, filter |-> <<>>,
                call |-> "-", pipeline |-> NULL, order |-> 0, n |-> 0]

WhereInit ==
    /\ m_pipelines = WherePipelines
    /\ m_pipelineIds = [i \in DOMAIN PipelineNames |-> PipelineNames[i]]
    /\ notice = NoNotice
    /\ extracted = NoExtracted
    /\ aborted = FALSE

\* ControlPipelineManager::updatePipelineFilter(doc).  m_pipeline[order - 1]
\* in reorder is undefined behaviour when order is not a position of the list.
updatePipelineFilter(doc, ub) ==
    LET value == getFromJSONWhere(doc, "cpid")
        cpid == strtol(value)
        filter == IF value = <<>> THEN <<>> ELSE getFromJSONWhere(doc, "fname")
        found == /\ value # <<>>
                 /\ filter # <<>>
                 /\ cpid \in DOMAIN m_pipelineIds
                 /\ m_pipelineIds[cpid] \in DOMAIN m_pipelines
        name == IF found THEN m_pipelineIds[cpid] ELSE NULL
        order == doc.forder.number
    IN  /\ ~aborted
        /\ extracted.n < MaxNotices
        /\ notice' = doc
        /\ (ub = "abort") => (found /\ order \notin DOMAIN m_pipelines[name].m_pipeline)
        /\ IF found /\ doc.forder.type = "int"
           THEN /\ extracted' = [handler |-> "update", value |-> value, cpid |-> cpid,
                                 filter |-> filter, call |-> "reorder",
                                 pipeline |-> name, order |-> order, n |-> extracted.n + 1]
                /\ IF order \in DOMAIN m_pipelines[name].m_pipeline
                   THEN /\ m_pipelines' =
                              [m_pipelines EXCEPT ![name].m_pipeline = reorder(@, filter, order)]
                        /\ UNCHANGED aborted
                   ELSE /\ aborted' = (ub = "abort")
                        /\ UNCHANGED m_pipelines
           ELSE /\ extracted' = [handler |-> "update", value |-> value, cpid |-> cpid,
                                 filter |-> filter, call |-> "-",
                                 pipeline |-> name, order |-> 0, n |-> extracted.n + 1]
                /\ UNCHANGED <<m_pipelines, aborted>>
        /\ UNCHANGED <<m_pipelineIds, notWhere>>

\* ControlPipelineManager::deletePipelineFilter(doc): m_pipelineIds[cpid]
\* adds an entry with an empty name for an id the map does not hold.
\* ControlPipeline::removeFilter erases the name from m_pipeline when it is
\* there.
deletePipelineFilter(doc) ==
    LET value == getFromJSONWhere(doc, "cpid")
        cpid == strtol(value)
        filter == IF value = <<>> THEN <<>> ELSE getFromJSONWhere(doc, "fname")
        looked == value # <<>> /\ filter # <<>>
        name == IF looked /\ cpid \in DOMAIN m_pipelineIds THEN m_pipelineIds[cpid] ELSE ""
        found == name # "" /\ name \in DOMAIN m_pipelines
    IN  /\ ~aborted
        /\ extracted.n < MaxNotices
        /\ notice' = doc
        /\ m_pipelineIds' = IF looked /\ cpid \notin DOMAIN m_pipelineIds
                            THEN (cpid :> "") @@ m_pipelineIds
                            ELSE m_pipelineIds
        /\ extracted' = [handler |-> "delete", value |-> value, cpid |-> cpid,
                         filter |-> filter,
                         call |-> IF found THEN "removeFilter" ELSE "-",
                         pipeline |-> IF found THEN name ELSE NULL, order |-> 0,
                         n |-> extracted.n + 1]
        /\ m_pipelines' =
              IF found
              THEN [m_pipelines EXCEPT ![name].m_pipeline = EraseAt(@, IndexOf(@, filter))]
              ELSE m_pipelines
        /\ UNCHANGED <<aborted, notWhere>>

WhereNext ==
    \/ \E doc \in ChangeDocs, ub \in Undefined : updatePipelineFilter(doc, ub)
    \/ \E doc \in ChangeDocs : deletePipelineFilter(doc)

(***************************************************************************)
(* Part 10: DispatcherApi::write and DispatcherApi::operation, which turn  *)
(* the body of a POST into control requests on m_requests, and the worker  *)
(* that takes the requests off the queue and executes them.  The caller is *)
(* not authenticated, or has been accepted by the middleware.              *)
(***************************************************************************)
MaxHttp == 2

\* A member the document does not have, or has with another JSON type.
Absent == "-"
NoCaller == [source |-> Absent, source_name |-> Absent]
Caller_(source, source_name) == [source |-> source, source_name |-> source_name]

\* The "write" or "operation" member: an object or not; `items` tells for the
\* write object, or for the value of each operation in turn, whether
\* KVList::KVList(Value&) accepts it ("ok") or throws ("bad": a value that
\* is not a string, or an operation whose value is not an object).
JsonMember(object, items) == [object |-> object, items |-> items]
Body(parses, destination, name, member, caller) ==
    [parses |-> parses, destination |-> destination, name |-> name,
     member |-> member, caller |-> caller]
NoPayload == Body(FALSE, Absent, Absent, JsonMember(FALSE, <<>>), NoCaller)

Destinations == { Absent, "service", "script", "broadcast", "other" }
Names == { Absent, "Y" }
Callers_ == { NoCaller, Caller_("service", "X"), Caller_("service", "Z") }
Bodies(members) ==
    { NoPayload }
    \cup { Body(TRUE, d, n, m, c) : d \in Destinations, n \in Names, m \in members,
                                     c \in Callers_ }
WritePayloads ==
    Bodies({ JsonMember(FALSE, <<>>), JsonMember(TRUE, <<"ok">>), JsonMember(TRUE, <<"bad">>) })
OperationPayloads ==
    Bodies({ JsonMember(FALSE, <<>>), JsonMember(TRUE, <<>>), JsonMember(TRUE, <<"ok">>),
             JsonMember(TRUE, <<"bad">>), JsonMember(TRUE, <<"ok", "ok">>),
             JsonMember(TRUE, <<"ok", "bad">>) })

\* getDestination() of the request classes.
getDestination(destination, name) ==
    CASE destination = "service" -> PipelineEndpoint("EndpointService", name)
      [] destination = "asset" -> PipelineEndpoint("EndpointAsset", name)
      [] destination = "script" -> PipelineEndpoint("EndpointScript", name)
      [] OTHER -> PipelineEndpoint("EndpointBroadcast", "")

\* A request object with what addCaller stored in it.  `http` tells which
\* HTTP request it was built for.
ControlRequest(http, kind, p) ==
    [http |-> http, kind |-> kind,
     destination |-> getDestination(p.destination, IF p.name = Absent THEN "" ELSE p.name),
     caller |-> IF p.caller.source # Absent /\ p.caller.source_name # Absent
                THEN p.caller ELSE NoCaller]

Answer(codes, queued) == [responses |-> codes, requests |-> queued]
BadRequest == "client_error_bad_request"
Accepted == "success_accepted"

\* The checks of destination and name that both handlers start with: TRUE
\* when the handler has answered and returned.
MissingField(p) ==
    \/ p.destination = Absent
    \/ p.name = Absent /\ p.destination \in {"script", "service", "asset"}

\* DispatcherApi::write: the responses written and the requests queued.  Only
\* the two checks above return; every other path reaches the respond() call
\* at the end of the function.
write(http, p) ==
    IF ~p.parses THEN Answer(<<BadRequest, Accepted>>, <<>>)
    ELSE IF MissingField(p) THEN Answer(<<BadRequest>>, <<>>)
    ELSE IF ~p.member.object THEN Answer(<<Accepted>>, <<>>)
    ELSE IF p.member.items[1] = "bad" THEN Answer(<<BadRequest, Accepted>>, <<>>)
    ELSE IF p.destination \in {"service", "asset", "script", "broadcast"}
    THEN Answer(<<Accepted>>, <<ControlRequest(http, "write", p)>>)
    ELSE Answer(<<BadRequest, Accepted>>, <<>>)

\* DispatcherApi::operation, the loop over the members of "operation": the
\* exception of KVList leaves the loop for the catch block, an unsupported
\* destination is answered and the loop goes on.
RECURSIVE operationLoop(_, _, _, _)
operationLoop(http, p, items, answer) ==
    IF items = <<>> THEN Answer(Append(answer.responses, Accepted), answer.requests)
    ELSE IF Head(items) = "bad"
    THEN Answer(answer.responses \o <<BadRequest, Accepted>>, answer.requests)
    ELSE IF p.destination \in {"service", "asset", "broadcast"}
    THEN operationLoop(http, p, Tail(items),
                       Answer(answer.responses,
                              Append(answer.requests, ControlRequest(http, "operation", p))))
    ELSE operationLoop(http, p, Tail(items),
                       Answer(Append(answer.responses, BadRequest), answer.requests))

operation(http, p) ==
    IF ~p.parses THEN Answer(<<BadRequest, Accepted>>, <<>>)
    ELSE IF MissingField(p) THEN Answer(<<BadRequest>>, <<>>)
    ELSE IF ~p.member.object THEN Answer(<<Accepted>>, <<>>)
    ELSE operationLoop(http, p, p.member.items, Answer(<<>>, <<>>))

\* The pipelines loaded: P1 for requests of service X to service Y, P2 for
\* requests of anybody to service Y.
ApiPipelines ==
    [n \in SeqToSet(PipelineNames) |->
        IF n = "P1"
        THEN ControlPipeline(PipelineEndpoint("EndpointService", "X"),
                             PipelineEndpoint("EndpointService", "Y"))
        ELSE ControlPipeline(EndpointAny, PipelineEndpoint("EndpointService", "Y"))]

ApiInit ==
    /\ m_requests = <<>>
    /\ m_pipelines = ApiPipelines
    /\ m_pipelineIds = [i \in DOMAIN PipelineNames |-> PipelineNames[i]]
    /\ lookup = NoLookup
    /\ posted = NoPayload
    /\ responses = <<>>
    /\ handled = 0
    /\ executed = <<>>
    /\ aborted = FALSE

\* POST /dispatch/write with body p.
Write(p) ==
    /\ ~aborted
    /\ handled < MaxHttp
    /\ handled' = handled + 1
    /\ posted' = p
    /\ responses' = write(handled', p).responses
    /\ m_requests' = m_requests \o write(handled', p).requests
    /\ UNCHANGED <<executed, aborted, notApi>>

\* POST /dispatch/operation with body p.
Operation(p) ==
    /\ ~aborted
    /\ handled < MaxHttp
    /\ handled' = handled + 1
    /\ posted' = p
    /\ responses' = operation(handled', p).responses
    /\ m_requests' = m_requests \o operation(handled', p).requests
    /\ UNCHANGED <<executed, aborted, notApi>>

\* What request->execute(this) can do: return, or raise an exception outside
\* the try blocks of the execute methods (filter() and Script::execute are
\* called outside them: a plugin's ingest, the column lookups of
\* Script::validateACL, an allocation).
Outcomes == {"returns", "throws"}

\* DispatcherService::worker, one round of the loop: getRequest(), execute,
\* delete.  filter() looks the pipeline up with the source it builds.
\* worker() and worker_thread() have no handler: an exception leaves the
\* thread function and std::terminate ends the process.
Worker(outcome) ==
    /\ ~aborted
    /\ m_requests # <<>>
    /\ m_requests' = Tail(m_requests)
    /\ LET source == EndpointAny
           pipeline == findPipeline(m_pipelines, source, Head(m_requests).destination)
       IN  executed' = Append(executed, [request |-> Head(m_requests), source |-> source,
                                         pipeline |-> pipeline, outcome |-> outcome])
    /\ aborted' = (outcome = "throws")
    /\ UNCHANGED <<posted, responses, handled, notApi>>

ApiNext ==
    \/ \E p \in WritePayloads : Write(p)
    \/ \E p \in OperationPayloads : Operation(p)
    \/ \E outcome \in Outcomes : Worker(outcome)

(***************************************************************************)
(* Part 11: the condition of a script step.  ScriptStep::addCondition      *)
(* stores a key, an operator and a literal in the step; ScriptStep::       *)
(* evaluate decides from the parameters of the script whether the step is  *)
(* to be executed.                                                         *)
(***************************************************************************)
Mode == <<"m", "o", "d", "e">>
On == <<"o", "n">>
Off == <<"o", "f", "f">>
Condition(key, op, value) == [m_key |-> key, m_op |-> op, m_value |-> value]
\* A step as constructed: no condition.
Unconditional == Condition(<<>>, "", <<>>)
ConditionKeys == { Mode, <<"v">> }
ConditionOps == { "==", "!=", "<" }
ConditionValues == { On, Off, <<"9">> }
EvaluateParameters ==
    { <<>>,
      <<Pair(Mode, On)>>,
      <<Pair(Mode, Off)>>,
      <<Pair(Mode, <<>>)>>,
      <<Pair(<<"v">>, On), Pair(Mode, Off)>>,
      <<Pair(Mode, On), Pair(Mode, Off)>> }
NotEvaluated == [done |-> FALSE, parameters |-> <<>>, result |-> FALSE]

ConditionInit ==
    /\ m_condition = Unconditional
    /\ evaluated = NotEvaluated

\* ScriptStep::addCondition(key, op, value)
addCondition(key, op, value) ==
    /\ m_condition' = Condition(key, op, value)
    /\ evaluated' = NotEvaluated
    /\ UNCHANGED notCondition

\* ScriptStep::evaluate(parameters) on the step
Evaluate(params) ==
    /\ evaluated' = [done |-> TRUE, parameters |-> params,
                     result |-> evaluate(m_condition, params)]
    /\ UNCHANGED <<m_condition, notCondition>>

ConditionNext ==
    \/ \E key \in ConditionKeys, op \in ConditionOps, value \in ConditionValues :
           addCondition(key, op, value)
    \/ \E params \in EvaluateParameters : Evaluate(params)

(***************************************************************************)
(* Part 12: the categories of the filter plugins.  A context registers     *)
(* every plugin it loads under the name of its filter; categoryChanged     *)
(* passes a changed category on to the plugins.  Two execution contexts of *)
(* one pipeline are followed: each loads its own plugin instances, a       *)
(* filter can be removed from a context, and a context can be destroyed.   *)
(***************************************************************************)
ContextIds == {1, 2}
CategoryFilters == <<"f1", "f2">>
\* The category names in the order of std::less<std::string>.
CategoryOrder == <<"f0", "f1", "f2">>
CategoryRank(category) == CHOOSE i \in DOMAIN CategoryOrder : CategoryOrder[i] = category

\* The plugin instance context c creates for a filter.
Plugin(c, filter) == [context |-> c, filter |-> filter]
Registration(category, plugin) == [first |-> category, second |-> plugin]
NewContext == [state |-> "unloaded", m_filters |-> CategoryFilters, m_plugins |-> <<>>]
NoReconfigure == [name |-> "-", calls |-> <<>>, deleted |-> {}]

\* std::multimap::insert: after the last element whose key is not greater.
multimapInsert(map, category, plugin) ==
    LET before == { i \in DOMAIN map : CategoryRank(map[i].first) <= CategoryRank(category) }
    IN  SubSeq(map, 1, Cardinality(before)) \o <<Registration(category, plugin)>>
            \o SubSeq(map, Cardinality(before) + 1, Len(map))

\* std::multimap::find: the position of the first element with the key, or
\* end(), one past the last element.
multimapFind(map, category) ==
    LET hits == { i \in DOMAIN map : map[i].first = category }
    IN  IF hits = {} THEN Len(map) + 1
        ELSE CHOOSE i \in hits : \A j \in hits : i <= j

\* ControlPipelineManager::registerCategory
registerCategory(map, category, plugin) == multimapInsert(map, category, plugin)

\* ControlPipelineManager::unregisterCategory
unregisterCategory(map, category, plugin) ==
    LET it == multimapFind(map, category)
        hits == { i \in it .. Len(map) : map[i].second = plugin }
    IN  IF hits = {} THEN map
        ELSE EraseAt(map, (CHOOSE i \in hits : \A j \in hits : i <= j) - 1)

\* The registrations of loadPipeline for the plugins of a context, in order.
RECURSIVE registerAll(_, _, _)
registerAll(map, c, filters) ==
    IF filters = <<>> THEN map
    ELSE registerAll(registerCategory(map, Head(filters), Plugin(c, Head(filters))),
                     c, Tail(filters))

CategoryInit ==
    /\ m_categories = <<>>
    /\ execContexts = [c \in ContextIds |-> NewContext]
    /\ gone = {}
    /\ reconfigured = NoReconfigure
    /\ aborted = FALSE

\* PipelineExecutionContext::loadPipeline of context c, every filter loaded.
C_LoadPipeline(c) ==
    /\ ~aborted
    /\ execContexts[c].state = "unloaded"
    /\ execContexts' = [execContexts EXCEPT ![c] =
           [state |-> "loaded", m_filters |-> @.m_filters,
            m_plugins |-> [i \in DOMAIN @.m_filters |-> Plugin(c, @.m_filters[i])]]]
    /\ m_categories' = registerAll(m_categories, c, execContexts[c].m_filters)
    /\ reconfigured' = NoReconfigure
    /\ UNCHANGED <<gone, aborted, notCategory>>

\* PipelineExecutionContext::removeFilter(filter) of the loaded context c.
C_RemoveFilter(c, filter, ub) ==
    /\ ~aborted
    /\ execContexts[c].state = "loaded"
    /\ reconfigured' = NoReconfigure
    /\ LET ctx == execContexts[c]
           index == IndexOf(ctx.m_filters, filter)
           filters == IF index < Len(ctx.m_filters) THEN EraseAt(ctx.m_filters, index)
                      ELSE ctx.m_filters
           erased == EraseAt(ctx.m_plugins, index)
       IN  IF index >= Len(ctx.m_plugins)
           THEN /\ aborted' = (ub = "abort")
                /\ execContexts' = [execContexts EXCEPT ![c].m_filters = filters]
                /\ UNCHANGED <<m_categories, gone>>
           ELSE /\ m_categories' = unregisterCategory(m_categories, filter,
                                                      ctx.m_plugins[index + 1])
                /\ execContexts' = [execContexts EXCEPT ![c].m_filters = filters,
                                                        ![c].m_plugins = erased]
                /\ IF index < Len(erased)
                   THEN /\ gone' = gone \cup {erased[index + 1]}
                        /\ UNCHANGED aborted
                   ELSE /\ gone' = gone \cup {ctx.m_plugins[index + 1]}
                        /\ aborted' = (index = 0 /\ ub = "abort")
    /\ UNCHANGED notCategory

\* PipelineExecutionContext::~PipelineExecutionContext of context c.
C_Destroy(c) ==
    /\ ~aborted
    /\ execContexts[c].state # "destroyed"
    /\ gone' = gone \cup SeqToSet(execContexts[c].m_plugins)
    /\ execContexts' = [execContexts EXCEPT ![c] =
           [state |-> "destroyed", m_filters |-> <<>>, m_plugins |-> <<>>]]
    /\ reconfigured' = NoReconfigure
    /\ UNCHANGED <<m_categories, aborted, notCategory>>

\* ControlPipelineManager::categoryChanged(name, content).  A reconfigure
\* call on a deleted plugin is a call through a dangling pointer.
categoryChanged(name, ub) ==
    /\ ~aborted
    /\ LET it == multimapFind(m_categories, name)
           calls == [i \in 1 .. (Len(m_categories) + 1 - it) |->
                        m_categories[it + i - 1].second]
       IN  /\ reconfigured' = [name |-> name, calls |-> calls,
                               deleted |-> SeqToSet(calls) \cap gone]
           /\ aborted' = (SeqToSet(calls) \cap gone # {} /\ ub = "abort")
    /\ UNCHANGED <<m_categories, execContexts, gone, notCategory>>

CategoryNext ==
    \/ \E c \in ContextIds : C_LoadPipeline(c)
    \/ \E c \in ContextIds, filter \in SeqToSet(CategoryOrder), ub \in Undefined :
           C_RemoveFilter(c, filter, ub)
    \/ \E c \in ContextIds : C_Destroy(c)
    \/ \E name \in SeqToSet(CategoryOrder), ub \in Undefined : categoryChanged(name, ub)

(***************************************************************************)
(* Part 13: the change notifications of the storage layer, handled on the  *)
(* notification thread, against a worker that is inside findPipeline.  A   *)
(* handler that takes m_pipelinesMtx runs from the lock_guard to its end   *)
(* as one step; a handler that takes no lock runs whenever it is called.   *)
(* A map changed under the iterator of findPipeline is a data race.        *)
(***************************************************************************)
\* The worker that looks the pipeline up: the first of the workers.
FinderThread == NoThread + 1
\* The cpids of the notifications: those of the pipelines and an unknown one.
NotifiedCpids == DOMAIN PipelineNames \cup {Len(PipelineNames) + 1}
NotifyRows == { ControlPipeline(EndpointAny, PipelineEndpoint("EndpointService", "Y")),
                ControlPipeline(PipelineEndpoint("EndpointService", "X"), EndpointAny) }
\* The destinations of the requests looked up.
NotifyDests == { PipelineEndpoint("EndpointService", "Y"), PipelineEndpoint("EndpointScript", "S") }
Idle == [pc |-> "idle", source |-> EndpointAny, dest |-> EndpointAny]
Untouched == [handler |-> "-", locked |-> FALSE, changed |-> FALSE, overlapped |-> FALSE]
\* What one handler did: whether it held m_pipelinesMtx, whether it inserted
\* into or erased from a map, and whether findPipeline was traversing.
Touch(handler, locked, changed) ==
    [handler |-> handler, locked |-> locked, changed |-> changed,
     overlapped |-> changed /\ finder.pc = "traversing"]
\* std::map::operator[] on m_pipelineIds: a missing key is inserted with an
\* empty name.
IdsSubscript(ids, cpid) == IF cpid \in DOMAIN ids THEN ids ELSE (cpid :> "") @@ ids
MapErase(map, key) == [k \in DOMAIN map \ {key} |-> map[k]]

NotifyInit ==
    /\ m_pipelines \in [SeqToSet(PipelineNames) -> NotifyRows]
    /\ m_pipelineIds = [i \in DOMAIN PipelineNames |-> PipelineNames[i]]
    /\ lookup = NoLookup
    /\ m_pipelinesMtx = NoThread
    /\ finder = Idle
    /\ touched = Untouched
    /\ aborted = FALSE

\* findPipeline, line 167: the worker takes the lock and starts the loops.
F_Enter(source, dest) ==
    /\ ~aborted
    /\ finder.pc = "idle"
    /\ m_pipelinesMtx = NoThread
    /\ m_pipelinesMtx' = FinderThread
    /\ finder' = [pc |-> "traversing", source |-> source, dest |-> dest]
    /\ UNCHANGED <<m_pipelines, m_pipelineIds, lookup, touched, aborted, notNotify>>

\* findPipeline returns what its loops found; the lock_guard is released.
F_Return ==
    /\ ~aborted
    /\ finder.pc = "traversing"
    /\ lookup' = [source |-> finder.source, dest |-> finder.dest, pipes |-> m_pipelines,
                  result |-> findPipeline(m_pipelines, finder.source, finder.dest)]
    /\ m_pipelinesMtx' = NoThread
    /\ finder' = Idle
    /\ UNCHANGED <<m_pipelines, m_pipelineIds, touched, aborted, notNotify>>

\* The outcome of a handler on the notification thread: a change of a map
\* that findPipeline is traversing is undefined behaviour.
Handled(handler, locked, changed, ub) ==
    /\ touched' = Touch(handler, locked, changed)
    /\ aborted' = (changed /\ finder.pc = "traversing" /\ ub = "abort")
    /\ UNCHANGED <<lookup, m_pipelinesMtx, finder, notNotify>>

\* insertPipeline: lock_guard at line 543, then the two maps are written.
N_insertPipeline(name, row, loaded, ub) ==
    /\ ~aborted
    /\ m_pipelinesMtx = NoThread
    /\ IF loaded
       THEN /\ m_pipelines' = (name :> row) @@ m_pipelines
            /\ m_pipelineIds' = (Cpid(name) :> name) @@ m_pipelineIds
       ELSE UNCHANGED <<m_pipelines, m_pipelineIds>>
    /\ Handled("insertPipeline", TRUE, loaded, ub)

\* updatePipeline: lock_guard at line 637, then m_pipelineIds[cpid].
N_updatePipeline(cpid, ub) ==
    /\ ~aborted
    /\ m_pipelinesMtx = NoThread
    /\ m_pipelineIds' = IdsSubscript(m_pipelineIds, cpid)
    /\ UNCHANGED m_pipelines
    /\ Handled("updatePipeline", TRUE, cpid \notin DOMAIN m_pipelineIds, ub)

\* deletePipeline: no lock; m_pipelineIds[cpid], erase, m_pipelines[name], erase.
N_deletePipeline(cpid, ub) ==
    /\ ~aborted
    /\ LET pipelineName == IdsSubscript(m_pipelineIds, cpid)[cpid]
       IN  /\ m_pipelineIds' = MapErase(m_pipelineIds, cpid)
           /\ m_pipelines' = MapErase(m_pipelines, pipelineName)
    /\ Handled("deletePipeline", FALSE, TRUE, ub)

\* insertPipelineFilter and deletePipelineFilter: no lock; m_pipelineIds[id],
\* and m_pipelines[name] when the name is not empty.
N_filterChange(handler, cpid, ub) ==
    /\ ~aborted
    /\ m_pipelineIds' = IdsSubscript(m_pipelineIds, cpid)
    /\ UNCHANGED m_pipelines
    /\ Handled(handler, FALSE, cpid \notin DOMAIN m_pipelineIds, ub)

\* updatePipelineFilter: no lock; m_pipelineIds.find and m_pipelines.find.
N_updatePipelineFilter(cpid, ub) ==
    /\ ~aborted
    /\ UNCHANGED <<m_pipelines, m_pipelineIds>>
    /\ Handled("updatePipelineFilter", FALSE, FALSE, ub)

NotifyNext ==
    \/ \E d \in NotifyDests : F_Enter(EndpointAny, d)
    \/ F_Return
    \/ \E n \in SeqToSet(PipelineNames), row \in NotifyRows, loaded \in BOOLEAN,
          ub \in Undefined : N_insertPipeline(n, row, loaded, ub)
    \/ \E cpid \in NotifiedCpids, ub \in Undefined : N_updatePipeline(cpid, ub)
    \/ \E cpid \in NotifiedCpids, ub \in Undefined : N_deletePipeline(cpid, ub)
    \/ \E handler \in {"insertPipelineFilter", "deletePipelineFilter"},
          cpid \in NotifiedCpids, ub \in Undefined : N_filterChange(handler, cpid, ub)
    \/ \E cpid \in NotifiedCpids, ub \in Undefined : N_updatePipelineFilter(cpid, ub)

(***************************************************************************)
(* Part 14: the control_pipelines table and the pipelines of the manager.  *)
(* loadPipelines reads the table at start-up; afterwards the storage layer *)
(* notifies the insert of a row and the update of a row.  Every pipeline   *)
(* of this part has the endpoints Any -> Service Y.                        *)
(***************************************************************************)
TableRow(name, enabled, execution) ==
    [cpid |-> Cpid(name), name |-> name, enabled |-> enabled, execution |-> execution]
EnabledValues == { "t", "f" }
ExecutionValues == { "Shared", "Exclusive" }
TableRows == { TableRow(n, en, ex) : n \in SeqToSet(PipelineNames), en \in EnabledValues,
                                     ex \in ExecutionValues }
\* The tables at start-up: no row, one row, or a row for each name.
Tables ==
    { <<>> } \cup { <<r>> : r \in TableRows }
    \cup { <<r1, r2>> : r1 \in { r \in TableRows : r.name = PipelineNames[1] },
                        r2 \in { r \in TableRows : r.name = PipelineNames[2] } }

\* The pipeline object: endpoints, m_enable and m_exclusive.
Pipeline(enable, exclusive) ==
    [m_source |-> EndpointAny, m_dest |-> PipelineEndpoint("EndpointService", "Y"),
     m_enable |-> enable, m_exclusive |-> exclusive]
\* ControlPipeline::ControlPipeline: m_enable(true), m_exclusive(false)
NewPipeline == Pipeline(TRUE, FALSE)

\* ResultSet::isLastRow(it): the iterator is at the last row of the result.
isLastRow(rows, it) == it = Len(rows)

\* The do-while loop of loadPipelines, entered with the iterator at row `it`:
\* the positions of the rows it processes.
RECURSIVE loadedRows(_, _)
loadedRows(rows, it) ==
    LET next == IF ~isLastRow(rows, it) THEN it + 1 ELSE it
    IN  {it} \cup (IF ~isLastRow(rows, next) THEN loadedRows(rows, next) ELSE {})

\* The pipeline loadPipelines builds from a row: enable() is called with the
\* enabled column, exclusive() is not called.
loadedPipeline(row) == [NewPipeline EXCEPT !.m_enable = (row.enabled = "t")]

\* The pipeline insertPipeline builds from the inserted row.
insertedPipeline(row) == Pipeline(row.enabled = "t", row.execution = "Exclusive")

NotManaged == [loaded |-> FALSE, path |-> <<>>, updated |-> {}]

TableInit ==
    /\ control_pipelines \in Tables
    /\ managed = NotManaged
    /\ m_pipelines = <<>>
    /\ m_pipelineIds = <<>>
    /\ lookup = NoLookup

\* ControlPipelineManager::loadPipelines, the query having succeeded.
loadPipelines ==
    /\ ~managed.loaded
    /\ LET rows == control_pipelines
           its == IF Len(rows) > 0 THEN loadedRows(rows, 1) ELSE {}
           names == { rows[i].name : i \in its }
           rowOf(n) == rows[CHOOSE i \in its : rows[i].name = n]
       IN  /\ m_pipelines' = [n \in names |-> loadedPipeline(rowOf(n))]
           /\ m_pipelineIds' = [c \in { rows[i].cpid : i \in its } |-> PipelineNames[c]]
           /\ managed' = [loaded |-> TRUE, path |-> [n \in names |-> "load"], updated |-> {}]
    /\ UNCHANGED <<control_pipelines, lookup, notTable>>

\* A row is inserted in the table and ControlPipelineManager::insertPipeline
\* handles the notification; loadPipeline(pname) finds the cpid of the row.
insertPipeline(row) ==
    /\ managed.loaded
    /\ \A i \in DOMAIN control_pipelines : control_pipelines[i].name # row.name
    /\ control_pipelines' = Append(control_pipelines, row)
    /\ m_pipelines' = (row.name :> insertedPipeline(row)) @@ m_pipelines
    /\ m_pipelineIds' = (row.cpid :> row.name) @@ m_pipelineIds
    /\ managed' = [managed EXCEPT !.path = (row.name :> "insert") @@ @]
    /\ UNCHANGED <<lookup, notTable>>

\* A row is updated and ControlPipelineManager::updatePipeline handles the
\* notification, which carries the enabled and execution columns.
updatePipeline(i, enabled, execution) ==
    /\ managed.loaded
    /\ i \in DOMAIN control_pipelines
    /\ LET row == control_pipelines[i]
           ids == IdsSubscript(m_pipelineIds, row.cpid)
           pipelineName == ids[row.cpid]
       IN  /\ control_pipelines' = [control_pipelines EXCEPT
                                       ![i] = TableRow(row.name, enabled, execution)]
           /\ m_pipelineIds' = ids
           /\ managed' = [managed EXCEPT !.updated = @ \cup {row.name}]
           /\ IF pipelineName = ""
              THEN UNCHANGED m_pipelines
              ELSE m_pipelines' = [m_pipelines EXCEPT ![pipelineName] =
                       [@ EXCEPT !.m_enable = (enabled = "t"),
                                 !.m_exclusive = (execution # "Shared")]]
    /\ UNCHANGED <<lookup, notTable>>

\* A worker calls findPipeline for a request to service Y.
T_FindPipeline(source) ==
    /\ managed.loaded
    /\ LET dest == PipelineEndpoint("EndpointService", "Y")
       IN  lookup' = [source |-> source, dest |-> dest, pipes |-> m_pipelines,
                      result |-> findPipeline(m_pipelines, source, dest)]
    /\ UNCHANGED <<control_pipelines, managed, m_pipelines, m_pipelineIds, notTable>>

TableNext ==
    \/ loadPipelines
    \/ \E row \in TableRows : insertPipeline(row)
    \/ \E i \in DOMAIN PipelineNames, enabled \in EnabledValues,
          execution \in ExecutionValues : updatePipeline(i, enabled, execution)
    \/ \E source \in { EndpointAny, PipelineEndpoint("EndpointService", "X") } :
           T_FindPipeline(source)

(***************************************************************************)
(* Specifications.                                                         *)
(***************************************************************************)
QueueParked ==
    /\ m_worker_threads = 1
    /\ m_requests = <<>>
    /\ m_mutex = NoThread
    /\ cvWaiters = {}
    /\ m_stopping = FALSE
    /\ wpc = [w \in WorkerIds |-> "absent"]
    /\ request = [w \in WorkerIds |-> 0]
    /\ hpc = "idle"
    /\ spc = "idle"
    /\ nextReq = 0
    /\ returned = [r \in RequestIds |-> 0]
    /\ started = <<>>
    /\ completed = <<>>
    /\ eligible = {}

FindParked ==
    /\ m_pipelines = <<>>
    /\ m_pipelineIds = <<>>
    /\ lookup = NoLookup

ExecParked ==
    /\ m_enable = TRUE
    /\ chain = "none"
    /\ exec = NoExec

ContextParked ==
    /\ m_contextMutex = NoThread
    /\ m_pipeline = <<>>
    /\ m_sharedContext = FALSE
    /\ m_filters = <<>>
    /\ m_plugins = <<>>
    /\ m_result = NoResult
    /\ ctx_mutex = NoThread
    /\ deleted = {}
    /\ cpc = [w \in WorkerIds |-> "idle"]
    /\ npc = "idle"
    /\ nargs = NoArgs
    /\ aborted = FALSE

ChainParked ==
    /\ m_out = Unplumbed
    /\ change = NoChange

ExclusiveParked ==
    /\ m_contexts = <<>>
    /\ freed = {}
    /\ handed = NoHanded
    /\ encountered = {}

ScriptParked ==
    /\ acl = [service |-> <<>>, url |-> <<>>]
    /\ call = NoCall
    /\ stack = <<>>
    /\ trace = <<>>
    /\ verdict = NoVerdict

KVListParked ==
    /\ kvlist = <<>>
    /\ parameters = <<>>
    /\ original = <<>>
    /\ kop = "-"
    /\ kpc = "ready"
    /\ entry = 0
    /\ p1 = 0
    /\ rval = <<>>

ExclusiveRestParked ==
    /\ m_pipeline = <<>>
    /\ m_sharedContext = FALSE
    /\ m_filters = <<>>
    /\ m_plugins = <<>>
    /\ deleted = {}

ChainRestParked ==
    /\ m_contextMutex = NoThread
    /\ m_result = NoResult
    /\ ctx_mutex = NoThread
    /\ cpc = [w \in WorkerIds |-> "idle"]
    /\ npc = "idle"
    /\ nargs = NoArgs

WhereParked ==
    /\ notice = NoNotice
    /\ extracted = NoExtracted

ApiParked ==
    /\ posted = NoPayload
    /\ responses = <<>>
    /\ handled = 0
    /\ executed = <<>>

ConditionParked ==
    /\ m_condition = Unconditional
    /\ evaluated = NotEvaluated

CategoryParked ==
    /\ m_categories = <<>>
    /\ execContexts = [c \in ContextIds |-> NewContext]
    /\ gone = {}
    /\ reconfigured = NoReconfigure

NotifyParked ==
    /\ m_pipelinesMtx = NoThread
    /\ finder = Idle
    /\ touched = Untouched

TableParked ==
    /\ control_pipelines = <<>>
    /\ managed = NotManaged

\* Parts 11 and later at rest.
LateParked == ConditionParked /\ CategoryParked /\ NotifyParked /\ TableParked

\* The queue, workers and stop() on their own.
QueueSpecInit == QueueInit /\ FindParked /\ ExecParked /\ ContextParked /\ ChainParked /\ ExclusiveParked
    /\ KVListParked /\ ScriptParked /\ WhereParked /\ ApiParked /\ LateParked
QueueSpec == QueueSpecInit /\ [][QueueNext]_vars

\* Pipeline lookup against every loaded set of pipelines.
FindSpecInit == FindInit /\ QueueParked /\ ExecParked /\ ContextParked /\ ChainParked /\ ExclusiveParked
    /\ KVListParked /\ ScriptParked /\ WhereParked /\ ApiParked /\ LateParked
FindSpec == FindSpecInit /\ [][FindNext]_vars

\* Requests executed against a loaded (or no) pipeline.
ExecSpecInit == ExecInit /\ lookup = NoLookup /\ QueueParked /\ ContextParked /\ ChainParked /\ ExclusiveParked
    /\ KVListParked /\ ScriptParked /\ WhereParked /\ ApiParked /\ LateParked
ExecSpec == ExecSpecInit /\ [][ExecNext]_vars

\* Two workers filtering through the shared context of a pipeline while
\* filters are added to and removed from the pipeline.
ContextSpecInit == ContextInit /\ QueueParked /\ FindParked /\ ExecParked /\ ChainParked /\ ExclusiveParked
    /\ KVListParked /\ ScriptParked /\ WhereParked /\ ApiParked /\ LateParked
ContextSpec == ContextSpecInit /\ [][ContextNext]_vars

\* The chain of one context under load, filter insert and filter delete.
ChainSpecInit ==
    /\ ChainInit /\ ChainRestParked /\ QueueParked /\ FindParked /\ ExecParked
    /\ ExclusiveParked /\ KVListParked /\ ScriptParked /\ WhereParked /\ ApiParked /\ LateParked
ChainSpec == ChainSpecInit /\ [][ChainNext]_vars

\* The contexts of one exclusive pipeline under getExecutionContext calls.
ExclusiveSpecInit ==
    /\ ExclusiveInit /\ ExclusiveRestParked /\ ChainRestParked /\ ChainParked
    /\ QueueParked /\ FindParked /\ ExecParked /\ KVListParked /\ ScriptParked
    /\ WhereParked /\ ApiParked /\ LateParked
ExclusiveSpec == ExclusiveSpecInit /\ [][ExclusiveNext]_vars

\* One KVList under the reading round trip or a substitution.
KVListSpecInit ==
    /\ KVListInit /\ ExclusiveParked /\ ExclusiveRestParked /\ ChainRestParked /\ ChainParked
    /\ QueueParked /\ FindParked /\ ExecParked /\ ScriptParked /\ WhereParked /\ ApiParked /\ LateParked
KVListSpec == KVListSpecInit /\ [][KVListNext]_vars

\* substitute is sequential code: its next step is always taken.
KVListFairSpec == KVListSpec /\ WF_vars(KVListNext)

\* Script requests, one at a time, against the stored scripts and one ACL.
ScriptSpecInit ==
    /\ ScriptInit /\ KVListParked /\ ExclusiveParked /\ ExclusiveRestParked
    /\ ChainRestParked /\ ChainParked /\ QueueParked /\ FindParked /\ ExecParked
    /\ WhereParked /\ ApiParked /\ LateParked
ScriptSpec == ScriptSpecInit /\ [][ScriptNext]_vars

\* The worker that executes a script runs it to its end: loading, executing
\* the next step and returning are always taken when they are possible.
ScriptFairness ==
    /\ WF_vars(X_Load)
    /\ WF_vars(\E ok \in BOOLEAN, ub \in MissingReturn : X_Step(ok, ub))
    /\ WF_vars(X_Return)
ScriptFairSpec == ScriptSpec /\ ScriptFairness

\* Filter update and delete notifications handled one after another.
WhereSpecInit ==
    /\ WhereInit /\ lookup = NoLookup /\ QueueParked /\ ExecParked
    /\ ExclusiveRestParked /\ ChainRestParked /\ ChainParked /\ ExclusiveParked
    /\ KVListParked /\ ScriptParked /\ ApiParked /\ LateParked
WhereSpec == WhereSpecInit /\ [][WhereNext]_vars

\* HTTP requests handled one after another while the worker runs.
ApiSpecInit ==
    /\ ApiInit
    /\ m_worker_threads = 1 /\ m_mutex = NoThread /\ cvWaiters = {} /\ m_stopping = FALSE
    /\ wpc = [w \in WorkerIds |-> "absent"] /\ request = [w \in WorkerIds |-> 0]
    /\ hpc = "idle" /\ spc = "idle" /\ nextReq = 0
    /\ returned = [r \in RequestIds |-> 0] /\ started = <<>> /\ completed = <<>>
    /\ eligible = {}
    /\ ExecParked /\ ExclusiveRestParked /\ ChainRestParked /\ ChainParked
    /\ ExclusiveParked /\ KVListParked /\ ScriptParked /\ WhereParked /\ LateParked
ApiSpec == ApiSpecInit /\ [][ApiNext]_vars

\* Everything but the parts 11 and later at rest.
EarlyParked ==
    /\ QueueParked /\ FindParked /\ ExecParked /\ ContextParked /\ ChainParked
    /\ ExclusiveParked /\ KVListParked /\ ScriptParked /\ WhereParked /\ ApiParked

\* One step given conditions and evaluated against parameter lists.
ConditionSpecInit == ConditionInit /\ EarlyParked /\ CategoryParked /\ NotifyParked /\ TableParked
ConditionSpec == ConditionSpecInit /\ [][ConditionNext]_vars

\* Two contexts loading, losing filters and being destroyed while categories
\* change.
CategorySpecInit ==
    /\ CategoryInit /\ ExclusiveRestParked /\ ChainRestParked
    /\ QueueParked /\ FindParked /\ ExecParked /\ ChainParked /\ ExclusiveParked
    /\ KVListParked /\ ScriptParked /\ WhereParked /\ ApiParked /\ ConditionParked
    /\ NotifyParked /\ TableParked
CategorySpec == CategorySpecInit /\ [][CategoryNext]_vars

\* Change notifications arriving while a worker looks a pipeline up.
NotifySpecInit ==
    /\ NotifyInit /\ ExclusiveRestParked /\ ChainRestParked
    /\ QueueParked /\ ExecParked /\ ChainParked /\ ExclusiveParked
    /\ KVListParked /\ ScriptParked /\ WhereParked /\ ApiParked /\ ConditionParked
    /\ CategoryParked /\ TableParked
NotifySpec == NotifySpecInit /\ [][NotifyNext]_vars

\* The table read at start-up, then rows inserted and updated and pipelines
\* looked up.
TableSpecInit ==
    /\ TableInit /\ QueueParked /\ ExecParked /\ ContextParked /\ ChainParked
    /\ ExclusiveParked /\ KVListParked /\ ScriptParked /\ WhereParked /\ ApiParked
    /\ ConditionParked /\ CategoryParked /\ NotifyParked
TableSpec == TableSpecInit /\ [][TableNext]_vars

\* Scheduling assumptions for the liveness claims: a runnable thread is
\* eventually scheduled (weak fairness of every step that needs no lock), a
\* thread contending for m_mutex eventually gets it (strong fairness of the
\* lock steps).  Nothing obliges HTTP callers to call queue(), anybody to call
\* stop(), or the condition variable to wake spuriously.
QueueFairness ==
    /\ WF_vars(Q_Push) /\ WF_vars(Q_Notify) /\ WF_vars(Q_Return)
    /\ WF_vars(S_NotifyAll) /\ WF_vars(S_ApiStop)
    /\ \A w \in WorkerIds :
          /\ SF_vars(W_Lock(w)) /\ SF_vars(W_Relock(w))
          /\ WF_vars(W_TestEmpty(w)) /\ WF_vars(W_TestStopping(w))
          /\ WF_vars(W_Wait(w)) /\ WF_vars(W_Front(w)) /\ WF_vars(W_Pop(w))
          /\ WF_vars(W_Execute(w)) /\ WF_vars(W_Delete(w))

QueueFairSpec == QueueSpecInit /\ [][QueueNext]_vars /\ QueueFairness

(***************************************************************************)
(* Claims about the queue and the workers.                                 *)
(***************************************************************************)
Occurrences(s, r) == Cardinality({i \in DOMAIN s : s[i] = r})
AllWorkersExited == \A w \in Workers : wpc[w] = "exited"

\* C1: whatever the interleaving of queue() and getRequest() calls, every
\* request is returned by getRequest() at most once and execute() is entered
\* for it at most once; when all the workers have exited, every request that
\* was pushed has either been executed or is still in the queue (never both).
C1_ExecutedAtMostOnce ==
    /\ \A r \in RequestIds : returned[r] <= 1 /\ Occurrences(started, r) <= 1
    /\ AllWorkersExited =>
          \A r \in 1 .. nextReq :
              (r \in SeqToSet(completed)) # (r \in SeqToSet(m_requests))

\* Two workers have each been handed requests, all workers have exited and a
\* request pushed after they left is still in the queue.
C1_Witness ==
    /\ m_worker_threads = 2
    /\ AllWorkersExited
    /\ Len(completed) >= 2
    /\ m_requests # <<>>

\* C2: with exactly one worker thread the requests are executed in the order
\* in which they were pushed by queue(), and execute() of a request is entered
\* only after execute() of every earlier request has returned.
C2_SingleWorkerFifo ==
    m_worker_threads = 1 =>
        /\ started = [i \in 1 .. Len(started) |-> i]
        /\ Len(started) - Len(completed) \in {0, 1}
        /\ completed = SubSeq(started, 1, Len(completed))

\* The single worker has executed every request of the run, in order.
C2_Witness ==
    /\ m_worker_threads = 1
    /\ Len(completed) = MaxRequests
    /\ Len(m_requests) = 0

\* C3: once stop() has set m_stopping, broadcast on m_cv and returned, every
\* worker eventually returns NULL from getRequest and leaves its loop; no
\* interleaving of stop() with a worker inside getRequest leaves that worker
\* blocked in m_cv.wait() forever.
C3_StopWakesAllWorkers ==
    (spc = "done") ~> AllWorkersExited

\* C4: under fair scheduling every request pushed by queue() while some
\* worker was still running is eventually executed; in particular a worker
\* blocked on the empty queue is woken by the queue() call.
C4_EnqueuedEventuallyExecuted ==
    \A r \in RequestIds : (r \in eligible) ~> (r \in SeqToSet(completed))

\* A request was pushed while a worker was blocked on the empty queue, and it
\* has been executed.
C4_Witness ==
    /\ eligible # {}
    /\ eligible \subseteq SeqToSet(completed)
    /\ \E w \in Workers : wpc[w] = "blocked"

(***************************************************************************)
(* Claims about the pipeline lookup.                                       *)
(***************************************************************************)
\* The endpoint matching rule as the claims state it: a pipeline endpoint of
\* type Any matches anything, otherwise type and name must agree.  It is read
\* here in the most permissive way: an endpoint without a name agrees with
\* every name of its type, and a request endpoint of type Any is matched by
\* every pipeline endpoint.
ClaimEndpointMatches(pipeEnd, requestEnd) ==
    \/ pipeEnd.m_type = "EndpointAny"
    \/ requestEnd.m_type = "EndpointAny"
    \/ /\ pipeEnd.m_type = requestEnd.m_type
       /\ (pipeEnd.m_name = "" \/ requestEnd.m_name = "" \/ pipeEnd.m_name = requestEnd.m_name)

ClaimPipelineMatches(pipe, source, dest) ==
    ClaimEndpointMatches(pipe.m_source, source) /\ ClaimEndpointMatches(pipe.m_dest, dest)

ScenarioP1 == ControlPipeline(PipelineEndpoint("EndpointService", "X"),
                              PipelineEndpoint("EndpointService", "Y"))
ScenarioP2 == ControlPipeline(EndpointAny, PipelineEndpoint("EndpointService", "Y"))
ScenarioPipes == [n \in {"P1", "P2"} |-> IF n = "P1" THEN ScenarioP1 ELSE ScenarioP2]

\* C5: findPipeline(s, d) returns a pipeline only if the pipeline's source
\* endpoint matches s and its destination endpoint matches d; when no loaded
\* pipeline does, it returns none.  With P1 = (Service X -> Service Y) and
\* P2 = (Any -> Service Y), findPipeline(Service Z, Service Y) is P2 and
\* findPipeline(Service Z, Service Q) is none.
C5_FindReturnsOnlyMatching ==
    lookup # NoLookup =>
        /\ lookup.result # NULL =>
               ClaimPipelineMatches(lookup.pipes[lookup.result], lookup.source, lookup.dest)
        /\ (\A n \in DOMAIN lookup.pipes :
               ~ClaimPipelineMatches(lookup.pipes[n], lookup.source, lookup.dest))
             => lookup.result = NULL
        /\ (lookup.pipes = ScenarioPipes
               /\ lookup.source = PipelineEndpoint("EndpointService", "Z")) =>
             /\ lookup.dest = PipelineEndpoint("EndpointService", "Y") => lookup.result = "P2"
             /\ lookup.dest = PipelineEndpoint("EndpointService", "Q") => lookup.result = NULL

\* The four passes as the claim states them.
ClaimExact(pipeEnd, requestEnd) ==
    pipeEnd.m_type # "EndpointAny" /\ ClaimEndpointMatches(pipeEnd, requestEnd)
ClaimIsAny(pipeEnd) == pipeEnd.m_type = "EndpointAny"
ClaimInPass(k, pipe, source, dest) ==
    CASE k = 1 -> ClaimExact(pipe.m_source, source) /\ ClaimExact(pipe.m_dest, dest)
      [] k = 2 -> ClaimIsAny(pipe.m_source) /\ ClaimExact(pipe.m_dest, dest)
      [] k = 3 -> ClaimExact(pipe.m_source, source) /\ ClaimIsAny(pipe.m_dest)
      [] k = 4 -> ClaimIsAny(pipe.m_source) /\ ClaimIsAny(pipe.m_dest)
ClaimPasses == 1 .. 4

\* C6: findPipeline returns a pipeline of the earliest of the four passes
\* (exact/exact, Any source/exact destination, exact source/Any destination,
\* Any/Any) that has a match; a pipeline that matches only in a later pass is
\* never returned while a pipeline matching in an earlier pass exists.
C6_EarliestPassWins ==
    lookup # NoLookup =>
        LET has(k) == \E n \in DOMAIN lookup.pipes :
                         ClaimInPass(k, lookup.pipes[n], lookup.source, lookup.dest)
            matching == { k \in ClaimPasses : has(k) }
        IN  matching # {} =>
               /\ lookup.result # NULL
               /\ ClaimInPass(CHOOSE k \in matching : \A j \in matching : k <= j,
                              lookup.pipes[lookup.result], lookup.source, lookup.dest)

(***************************************************************************)
(* Claims about the execution of requests.                                 *)
(***************************************************************************)
\* C7: when a write request matches a pipeline and the context's filter()
\* returns NULL because the filter chain removed the reading, the request is
\* dropped: nothing is sent downstream for it.
C7_RemovedWriteNotSent ==
    (exec.kind = "write" /\ exec.pipeline # NULL
        /\ exec.filtered /\ exec.return = <<>> /\ exec.removed)
        => exec.delivered = <<>>

\* What a request's key/value list becomes when it is run through a context:
\* converted to a reading, filtered, and read back from the reading that
\* filter() returns (nothing is read back when filter() returns NULL).
ClaimReadBack(c, list) ==
    LET f == ContextFilter(c, toReading(list))
    IN  [i \in DOMAIN f.return |-> fromReading(f.return[i])]

\* C8: for an operation request for which findPipeline returns a pipeline,
\* the parameters of the payload sent downstream are the values read back
\* from running the request's parameters through the pipeline's execution
\* context.
C8_OperationParametersFiltered ==
    (exec.kind = "operation" /\ exec.pipeline # NULL /\ exec.delivered # <<>>)
        => \A i \in DOMAIN ClaimReadBack(exec.chain, exec.input) :
              exec.delivered[1].payload.parameters = ClaimReadBack(exec.chain, exec.input)[i]

InsideFilter(w) == cpc[w] \in {"load", "ingest", "result", "result_unwritten"}

Rewiring == npc \in {"add_plugin", "remove_plugin", "replumb"}

\* C10: no filter() invocation on a context overlaps with a reconfiguration
\* of that context by a change notification; no worker is inside filter()
\* while the filter list and plugin vector are being modified.
C10_NoFilterDuringRewiring ==
    \A w \in WorkerIds : ~(InsideFilter(w) /\ Rewiring)

(***************************************************************************)
(* Claims about the filter chain of a context.                             *)
(***************************************************************************)
\* The chain is fully routed: every plugin sends its output to its successor
\* in the plugin vector and the last one to the context's result slot.
Routed(plugins, out) ==
    \A i \in DOMAIN plugins :
        out[plugins[i]] = IF i < Len(plugins) THEN plugins[i + 1] ELSE "result"

\* A filter insert was handled on a context that had loaded all its plugins.
InsertedInLoaded ==
    /\ change.op = "insert" /\ change.handled /\ change.loaded
    /\ change.m_plugins # <<>>
    /\ change.m_plugins = change.m_filters

\* C11: after a filter-insert notification (forder = k, fname = N) is handled
\* for a context that has loaded its plugins [p1..pn], N sits at position k of
\* the filter-name list and of the plugin list, the plugin before position k
\* routes to N, N routes to the plugin that follows it and the last plugin
\* routes to the result slot.
C11_InsertedFilterIsRouted ==
    (InsertedInLoaded /\ ~aborted) =>
        /\ m_filters = InsertAt(change.m_filters, change.order - 1, change.filter)
        /\ m_plugins = InsertAt(change.m_plugins, change.order - 1, change.filter)
        /\ Routed(m_plugins, m_out)

\* C24: when a filter of the pipeline fails to load during loadPipeline the
\* context is left with an empty plugin list, so that the next filter() call
\* loads again and no partly loaded chain is handed a request.
C24_FailedLoadLeavesContextUnloaded ==
    (change.op = "load" /\ ~change.loaded) => m_plugins = <<>>

\* removeFilter was called on a context that had loaded all its plugins.
RemovedFromLoaded ==
    /\ change.op = "delete"
    /\ change.m_plugins # <<>>
    /\ change.m_plugins = change.m_filters

\* C28: removeFilter(name) on a loaded context frees the plugin of the named
\* filter and no other, the remaining names and plugins keep their order,
\* and with a name that is no filter of the context both lists stay as they
\* were.
C28_RemoveFilterFreesNamedPlugin ==
    (RemovedFromLoaded /\ ~aborted) =>
        IF change.filter \in SeqToSet(change.m_filters)
        THEN /\ deleted = change.deleted \cup {change.filter}
             /\ m_filters = EraseAt(change.m_filters,
                                     IndexOf(change.m_filters, change.filter))
             /\ m_plugins = EraseAt(change.m_plugins,
                                     IndexOf(change.m_plugins, change.filter))
        ELSE /\ deleted = change.deleted
             /\ m_filters = change.m_filters
             /\ m_plugins = change.m_plugins

\* C29: after removeFilter has completed on a loaded, fully routed context
\* no remaining plugin routes to the removed one, every plugin but the last
\* routes to its successor and the last routes to the result slot.
C29_ChainCompleteAfterRemove ==
    (RemovedFromLoaded /\ ~aborted
        /\ Routed(change.m_plugins, change.m_out)
        /\ change.filter \in SeqToSet(change.m_filters))
    => /\ \A i \in DOMAIN m_plugins : m_out[m_plugins[i]] # change.filter
       /\ Routed(m_plugins, m_out)

\* C38: whenever the plugin list of a context is not empty it has the length
\* of the filter-name list and plugin i is the instance created for filter
\* name i, after any sequence of loads, filter insertions and removals.
C38_PluginsParallelToFilters ==
    (m_plugins # <<>> /\ ~aborted) => m_plugins = m_filters

(***************************************************************************)
(* Claims about the contexts of an exclusive pipeline.                     *)
(***************************************************************************)
StoredPairs == { <<m_contexts[i].m_source, m_contexts[i].m_dest>> : i \in DOMAIN m_contexts }

\* C12: for an exclusive pipeline getExecutionContext(source, dest) returns an
\* existing context only when the stored pair equals the requested pair, two
\* different pairs never share a context, and the pipeline holds exactly one
\* context per distinct pair encountered.
C12_ContextPerEqualPair ==
    ~aborted =>
        /\ handed.reused =>
               (handed.stored.m_source = handed.source /\ handed.stored.m_dest = handed.dest)
        /\ \A i, j \in DOMAIN m_contexts :
               (i # j) => /\ m_contexts[i].m_context # m_contexts[j].m_context
                          /\ <<m_contexts[i].m_source, m_contexts[i].m_dest>>
                                 # <<m_contexts[j].m_source, m_contexts[j].m_dest>>
        /\ StoredPairs = encountered

\* C27: the context that getExecutionContext hands out for an exclusive
\* pipeline has not been destroyed, neither on return from the call that
\* created it nor after later calls for other pairs.
C27_HandedContextIsAlive ==
    (handed.context # NoContext /\ ~aborted) => handed.context \notin freed

(***************************************************************************)
(* Claims about KVList.                                                    *)
(***************************************************************************)
\* C18: converting a KVList to a reading and back yields the same keys in the
\* same order with the same string value for every key.
C18_RoundTripPreservesValues ==
    (kop = "roundtrip" /\ kpc = "done") => kvlist = original

\* What the specification says substitute makes of one value: the text up to
\* a dollar sign is copied, $key$ becomes the first value stored for key (the
\* empty string without one), and an opening dollar sign without a closing
\* one is copied with the rest of the value.
ClaimFirstValue(list, key) ==
    IF \E i \in DOMAIN list : list[i].first = key
    THEN list[CHOOSE i \in DOMAIN list :
                  list[i].first = key /\ \A j \in 1 .. (i - 1) : list[j].first # key].second
    ELSE <<>>
RECURSIVE ClaimSubstitute(_, _)
ClaimSubstitute(value, values) ==
    IF \A i \in DOMAIN value : value[i] # "$" THEN value
    ELSE LET open == CHOOSE i \in DOMAIN value :
                         value[i] = "$" /\ \A j \in 1 .. (i - 1) : value[j] # "$"
             rest == SubSeq(value, open + 1, Len(value))
         IN  IF \A i \in DOMAIN rest : rest[i] # "$" THEN value
             ELSE LET close == CHOOSE i \in DOMAIN rest :
                                   rest[i] = "$" /\ \A j \in 1 .. (i - 1) : rest[j] # "$"
                  IN  SubSeq(value, 1, open - 1)
                          \o ClaimFirstValue(values, SubSeq(rest, 1, close - 1))
                          \o ClaimSubstitute(SubSeq(rest, close + 1, Len(rest)), values)
Dollars(value) == Cardinality({ i \in DOMAIN value : value[i] = "$" })
Substituted ==
    /\ kop = "substitute" /\ kpc = "done"
    /\ \A i \in DOMAIN original :
           /\ kvlist[i].first = original[i].first
           /\ kvlist[i].second = ClaimSubstitute(original[i].second, parameters)

\* C19: substitute terminates for every value, and a value with an opening
\* dollar sign that is never closed comes out as the text before it, earlier
\* macros expanded, followed by the remainder as it was.
C19_SubstituteTerminates ==
    (kop = "substitute") ~> Substituted

\* C20: in a value whose dollar signs are all paired every $key$ is replaced,
\* left to right, by the first value stored for key (nothing when the key is
\* absent), the other text is copied, and dollar signs inside a substituted
\* value are not expanded again.
C20_PairedMacrosReplaced ==
    (kop = "substitute" /\ kpc = "done"
        /\ \A i \in DOMAIN original : Dollars(original[i].second) % 2 = 0)
    => Substituted
C20_Witness ==
    /\ kop = "substitute" /\ kpc = "done"
    /\ Len(original) = 2
    /\ original[1].second = <<"$", "k", "$", "$", "j", "$">>
    /\ Len(parameters) = 2
    /\ kvlist[1].second # original[1].second

\* What the specification says deduceType makes of a value.
ClaimType(value) ==
    LET dots == Cardinality({ i \in DOMAIN value : value[i] = "." })
    IN  IF value = <<>> \/ \E i \in DOMAIN value : ~IsDigit(value[i]) /\ value[i] # "."
        THEN "T_STRING"
        ELSE IF dots = 0 THEN "T_INTEGER"
        ELSE IF dots = 1 THEN "T_FLOAT"
        ELSE "T_STRING"

\* C30: the datapoint that toReading builds for a value is an integer exactly
\* when the value is made of digits only, a float exactly when it is made of
\* digits and one dot, and a string otherwise: for the empty value, for two
\* or more dots and for a character that is no digit after the first dot.
C30_DeduceTypeClassifies ==
    (kop = "roundtrip" /\ kpc = "done")
    => \A i \in DOMAIN original :
           toReading(original)[i].type = ClaimType(original[i].second)

(***************************************************************************)
(* Claims about the filter change notifications.                           *)
(***************************************************************************)
\* What the specification says getFromJSONWhere returns: the value of the
\* column named key, from the where clause or from its "and" clause, a
\* string as it is and an integer in decimal.
ClaimFromJSONWhere(doc, key) ==
    LET clause == IF doc.where.column = key THEN doc.where
                  ELSE IF doc.and # NoClause /\ doc.and.column = key THEN doc.and
                  ELSE NoClause
    IN  CASE clause.value.type = "string" -> clause.value.text
          [] clause.value.type = "int" -> LongToString(clause.value.number)
          [] OTHER -> <<>>

\* C25: the handlers of a filter update or delete read the pipeline id as
\* its decimal string and the filter name unchanged, from the where clause
\* or from its "and" clause, and an update with an integer forder calls
\* reorder on the pipeline with that id, with that filter name.
C25_WhereClauseValuesExtracted ==
    extracted.handler # "-" =>
        LET cpid == strtol(ClaimFromJSONWhere(notice, "cpid"))
        IN  /\ extracted.value = ClaimFromJSONWhere(notice, "cpid")
            /\ extracted.filter = ClaimFromJSONWhere(notice, "fname")
            /\ (extracted.handler = "update" /\ notice.forder.type = "int"
                    /\ cpid \in DOMAIN PipelineNames)
               => /\ extracted.call = "reorder"
                  /\ extracted.pipeline = PipelineNames[cpid]

(***************************************************************************)
(* Claims about the HTTP entry points and the worker.                      *)
(***************************************************************************)
\* The control requests queued for the HTTP request handled last, whether
\* they are still in the queue or have been taken by the worker.
QueuedForLast ==
    { m_requests[i] : i \in { j \in DOMAIN m_requests : m_requests[j].http = handled } }
    \cup { executed[i].request :
               i \in { j \in DOMAIN executed : executed[j].request.http = handled } }

\* C21: an exception raised while the worker executes a request does not
\* leave the worker loop: the request is dropped and the worker, alive,
\* goes on with the next request.
C21_WorkerSurvivesFailure ==
    (executed # <<>> /\ executed[Len(executed)].outcome = "throws") => ~aborted

\* C22: when the write or operation handler has answered 400, no control
\* request built from that HTTP request is on the queue, also when only a
\* later operation of the payload is malformed.
C22_BadRequestQueuesNothing ==
    (handled > 0 /\ \E i \in DOMAIN responses : responses[i] = BadRequest)
    => QueuedForLast = {}

\* C23: every HTTP request gets exactly one response, 202 exactly when a
\* control request was queued for it and 400 otherwise.
C23_ExactlyOneResponse ==
    handled > 0 =>
        /\ Len(responses) = 1
        /\ responses[1] = (IF QueuedForLast # {} THEN Accepted ELSE BadRequest)

\* The endpoint the specification builds from a caller hint.
ClaimSource(caller) ==
    IF caller.source = "service" THEN PipelineEndpoint("EndpointService", caller.source_name)
    ELSE EndpointAny

\* C26: for a request with a caller hint the source endpoint of the pipeline
\* lookup is built from the hint, and a pipeline whose source is a named
\* service is applied only to requests of that service.
C26_CallerHintSelectsPipeline ==
    \A i \in DOMAIN executed :
        LET e == executed[i]
        IN  e.request.caller # NoCaller =>
               /\ e.source = ClaimSource(e.request.caller)
               /\ (e.pipeline # NULL /\ m_pipelines[e.pipeline].m_source.m_type # "EndpointAny")
                  => m_pipelines[e.pipeline].m_source = ClaimSource(e.request.caller)

(***************************************************************************)
(* Claims about automation scripts.                                        *)
(***************************************************************************)
\* C13: the steps of a script are invoked in strictly ascending order value,
\* and once a step returns false no further step is invoked and the script
\* execution returns false.
C13_StepsAscendingUntilFailure ==
    /\ \A i, j \in DOMAIN trace :
           (i < j /\ trace[i].frame = trace[j].frame) => trace[i].order < trace[j].order
    /\ \A i \in DOMAIN trace :
           (trace[i].res = "false") =>
               (i = Len(trace) /\ call.state = "returned" /\ ~call.result)
C13_Witness ==
    /\ call.script = "seq" /\ call.state = "returned" /\ ~call.result
    /\ Len(trace) = 2
    /\ trace[1].order = 1 /\ trace[1].res = "true"
    /\ trace[2].order = 2 /\ trace[2].res = "false"

\* The step of a stored script with a given order value, and whether its
\* condition {key, "==", value} is false for a parameter list.
StoredStep(script, order) ==
    LET steps == ScriptTable[script].steps
    IN  steps[CHOOSE i \in DOMAIN steps : steps[i].order = order]
ConditionIsFalse(condition, params) ==
    /\ condition.key # <<>>
    /\ condition.condition = "=="
    /\ ClaimFirstValue(params, condition.key) # condition.value

\* C14: a step stored with a condition {key, "==", value} is skipped, sends
\* nothing and counts as success when the parameters of the execution lack
\* the key or give it another value.
C14_FalseConditionSkipsStep ==
    \A i \in DOMAIN trace :
        ConditionIsFalse(StoredStep(trace[i].script, trace[i].order).condition, call.parameters)
            => (~trace[i].sent /\ trace[i].res = "true")

\* An entry {name: X} or {type: Y} that names the caller.
ClaimEntryMatches(e, caller) ==
    \E i \in DOMAIN e :
        \/ e[i].key = "name" /\ e[i].value = caller.m_source_name
        \/ e[i].key = "type" /\ e[i].value = caller.m_source_type

\* C15: with a non-empty services array validateACL accepts the services
\* part exactly when some entry, at any position, names the caller or the
\* caller's type.
C15_ServicesAcceptedIffAnyEntryMatches ==
    (verdict.checked /\ acl.service # <<>>) =>
        (verdict.services <=>
            \E i \in DOMAIN acl.service : ClaimEntryMatches(acl.service[i], call.caller))

\* C16: when validateACL rejects the caller for a script, the execution of
\* that script returns failure and none of its steps is executed.
C16_RejectedScriptRunsNoStep ==
    (verdict.checked /\ ~(verdict.services /\ verdict.url)) =>
        /\ call.state = "returned" /\ ~call.result
        /\ \A i \in DOMAIN trace : trace[i].script # verdict.script
C16_Witness ==
    /\ call.script = "guarded" /\ call.state = "returned" /\ ~call.result
    /\ acl.service = << <<Member("type", "Notification")>> >>
    /\ call.caller.m_source_type = "Schedule"
    /\ verdict.checked /\ ~verdict.services
    /\ trace = <<>>

\* C17: the execution of a script whose sub-script steps form a cycle
\* terminates: it fails once the nesting bound is reached.
C17_SubScriptCycleTerminates ==
    (call.state = "running" /\ call.script \in {"self", "ping"})
        ~> (call.state = "returned" /\ ~call.result)

\* C32: a delay step and a config step report success to Script::execute,
\* so the script proceeds to the step after them; when an execution of the
\* script "demo" has returned, the write at order 3 was sent after the delay
\* at order 2.
C32_DelayAndConfigReportSuccess ==
    /\ \A i \in DOMAIN trace :
           trace[i].type \in {"delay", "config"} => trace[i].res = "true"
    /\ (call.script = "demo" /\ call.state = "returned") =>
           \A i \in DOMAIN trace :
               (trace[i].script = "demo" /\ trace[i].order = 2) =>
                   \E j \in DOMAIN trace :
                       j > i /\ trace[j].script = "demo" /\ trace[j].order = 3 /\ trace[j].sent

(***************************************************************************)
(* Claims about the condition of a script step.                            *)
(***************************************************************************)
\* C31: with a non-empty condition key that has a value in the parameters,
\* evaluate returns for "==" whether the value equals the literal and for
\* "!=" whether it differs from the literal; when the key has no value in
\* the parameters it returns false.
C31_EvaluateComparesValue ==
    (evaluated.done /\ m_condition.m_key # <<>>) =>
        LET value == ClaimFirstValue(evaluated.parameters, m_condition.m_key)
        IN  /\ value = <<>> => ~evaluated.result
            /\ (value # <<>> /\ m_condition.m_op = "==") =>
                   (evaluated.result <=> value = m_condition.m_value)
            /\ (value # <<>> /\ m_condition.m_op = "!=") =>
                   (evaluated.result <=> value # m_condition.m_value)

(***************************************************************************)
(* Claims about the categories of the filter plugins.                      *)
(***************************************************************************)
\* The plugins registered under a category name, in registration order.
RegisteredUnder(name) ==
    LET regs == SelectSeq(m_categories, LAMBDA r : r.first = name)
    IN  [i \in DOMAIN regs |-> regs[i].second]

\* C33: categoryChanged(name, body) calls reconfigure on exactly the plugins
\* registered under name, each once and in registration order, and on no
\* plugin registered only under another category name.
C33_ReconfigureReachesRegisteredPlugins ==
    reconfigured.name # "-" => reconfigured.calls = RegisteredUnder(reconfigured.name)

\* C40: a plugin that has been shut down and deleted is no longer in the
\* category-to-plugin map, and categoryChanged never calls reconfigure on a
\* deleted plugin.
C40_DeletedPluginIsUnregistered ==
    /\ \A i \in DOMAIN m_categories : m_categories[i].second \notin gone
    /\ reconfigured.deleted = {}

(***************************************************************************)
(* Claims about the change notifications of the pipeline manager.          *)
(***************************************************************************)
\* C34: every change-notification handler reads and modifies the
\* name-to-pipeline map and the cpid-to-name map only while it holds the
\* manager mutex, so no insertion or erasure of a handler overlaps a
\* findPipeline traversal on a worker.
C34_HandlersHoldManagerMutex ==
    touched.handler # "-" => (touched.locked /\ ~touched.overlapped)

(***************************************************************************)
(* Claims about the pipelines loaded from the table.                       *)
(***************************************************************************)
\* C35: after loadPipelines has returned, the manager holds for every row
\* of control_pipelines, whatever the number of rows, a pipeline registered
\* under the row's name and a cpid-to-name entry for the row's cpid.
C35_EveryRowLoaded ==
    managed.loaded =>
        \A i \in DOMAIN control_pipelines :
            LET row == control_pipelines[i]
            IN  /\ row.name \in DOMAIN m_pipelines
                /\ row.cpid \in DOMAIN m_pipelineIds
                /\ m_pipelineIds[row.cpid] = row.name

\* C37: a pipeline whose enabled flag is false is never returned by
\* findPipeline.
C37_DisabledPipelineNotReturned ==
    lookup.result \in DOMAIN lookup.pipes => lookup.pipes[lookup.result].m_enable

\* The row of the table for a pipeline name.
RowNamed(name) ==
    control_pipelines[CHOOSE i \in DOMAIN control_pipelines : control_pipelines[i].name = name]

\* C39: a row yields the same flags whether it was read by loadPipelines or
\* delivered by a pipeline-insert notification: enabled is true iff the
\* enabled column is "t", exclusive is true iff the execution column is
\* "Exclusive".
C39_LoadAndInsertAgree ==
    \A name \in DOMAIN m_pipelines :
        (name \in DOMAIN managed.path /\ name \notin managed.updated) =>
            /\ m_pipelines[name].m_enable = (RowNamed(name).enabled = "t")
            /\ m_pipelines[name].m_exclusive = (RowNamed(name).execution = "Exclusive")

=============================================================================
